---- MODULE Spec2Model ----
(***************************************************************************)
(* Huddle (tenant) isolation layer of the chat application:                *)
(*   - slug extraction from the request host   (middleware/tenant.py)      *)
(*   - the TTL cache in front of the Directory (middleware/tenant.py)      *)
(*   - the tenant middleware and its guard     (middleware/tenant.py)      *)
(*   - the model-listing response filter       (middleware/model_filter.py)*)
(*   - mentor indexing, search and fetch       (services/mentor_rag.py,    *)
(*                                              routers/mentors.py)        *)
(*   - the huddle context endpoint             (routers/tenants.py)        *)
(*                                                                         *)
(* The specifications of the module:                                       *)
(*   Spec       requests running through TenantMiddleware.dispatch on one  *)
(*              event loop, with the clock and the Directory changing      *)
(*              underneath them;                                           *)
(*   SpecLive   the same up to the hand-over, with fair scheduling;        *)
(*   SpecStale  the same up to the hand-over, with the time of each        *)
(*              Directory answer kept as history;                          *)
(*   SpecCtx    the same with GET /context as the downstream handler;      *)
(*   SpecSlug   extract_subdomain applied to a bounded set of host strings;*)
(*   SpecFilter HuddleModelFilterMiddleware.dispatch applied to a bounded  *)
(*              set of upstream responses;                                 *)
(*   SpecRag    the mentor endpoints and MentorRAGService over a mentor    *)
(*              table that changes underneath them;                        *)
(*   SpecRagAll the indexing batch over all huddles;                       *)
(*   SpecRoute  the route table of the mentor router;                      *)
(*   SpecDir    HuddleTable.get_huddle_by_slug applied to a bounded set of *)
(*              table contents and query slugs.                            *)
(***************************************************************************)
EXTENDS Integers, Sequences, FiniteSets, TLC

VARIABLES
    \* ---- Spec: tenant middleware, cache, Directory ----
    now,        \* time.time(), in whole seconds
    ticks,      \* how many times the clock has advanced (bounded)
    db,         \* huddles table: lowercase slug -> huddle row or NoHuddle
    cache,      \* _huddle_cache: slug -> NoEntry or [huddle, cached_at]
    loop,       \* the request running on the event loop, 0 when it is free
    req,        \* per request: position in dispatch and its locals
    conf,       \* environment configuration read at import time
    lastFill,   \* history: per slug, the last resolution that stored an entry
    \* ---- SpecSlug ----
    ex,         \* one application of extract_subdomain
    \* ---- SpecFilter ----
    flt,        \* one application of the model filter middleware
    \* ---- SpecRag ----
    rag,        \* mentor store, vector store and the mentor operation running
    \* ---- SpecDir ----
    dir,        \* one Directory lookup by slug
    \* ---- SpecStale ----
    readAt      \* history: per slug, when the Directory last answered

tenantVars == <<now, ticks, db, cache, loop, req, conf, lastFill, readAt>>
vars ==
    <<now, ticks, db, cache, loop, req, conf, lastFill, ex, flt, rag, dir,
      readAt>>

\* Python's None for Optional[str]; no host, header or slug is this string.
None == "(None)"
\* Python's None for Optional[HuddleModel].
NoHuddle == <<>>

(***************************************************************************)
(* str methods used by the source, on TLA+ strings.                        *)
(***************************************************************************)
CharAt(s, i) == SubSeq(s, i, i)

UpperChars == "ABCDEFGHIJKLMNOPQRSTUVWXYZ"
LowerChars == "abcdefghijklmnopqrstuvwxyz"

\* str.lower() of one character
LowerChar(c) ==
    IF \E i \in 1..Len(UpperChars) : CharAt(UpperChars, i) = c
    THEN CharAt(LowerChars, CHOOSE i \in 1..Len(UpperChars) : CharAt(UpperChars, i) = c)
    ELSE c

RECURSIVE Lower(_)
\* str.lower()
Lower(s) == IF s = "" THEN "" ELSE LowerChar(Head(s)) \o Lower(Tail(s))

\* s.split(sep)[0] for a one-character sep: the text before the first sep
BeforeFirst(s, sep) ==
    IF \E i \in 1..Len(s) : CharAt(s, i) = sep
    THEN LET i == CHOOSE j \in 1..Len(s) :
                      /\ CharAt(s, j) = sep
                      /\ \A k \in 1..(j - 1) : CharAt(s, k) # sep
         IN  SubSeq(s, 1, i - 1)
    ELSE s

\* s.endswith(suffix)
EndsWith(s, suffix) ==
    /\ Len(s) >= Len(suffix)
    /\ SubSeq(s, Len(s) - Len(suffix) + 1, Len(s)) = suffix

RECURSIVE RStrip(_, _)
\* s.rstrip(ch) for a one-character ch
RStrip(s, ch) ==
    IF s # "" /\ CharAt(s, Len(s)) = ch
    THEN RStrip(SubSeq(s, 1, Len(s) - 1), ch)
    ELSE s

RECURSIVE Split(_, _)
\* s.split(sep) for a one-character sep: a sequence of strings
Split(s, sep) ==
    IF \E i \in 1..Len(s) : CharAt(s, i) = sep
    THEN LET head == BeforeFirst(s, sep)
         IN  <<head>> \o Split(SubSeq(s, Len(head) + 2, Len(s)), sep)
    ELSE <<s>>

(***************************************************************************)
(* Slug extraction (middleware/tenant.py)                                  *)
(***************************************************************************)
BASE_DOMAIN == "alumnihuddle.com"
RESERVED_SUBDOMAINS == {"www", "api", "admin", "app", "localhost"}

RECURSIVE FirstUnreserved(_)
\* the for loop of extract_subdomain: first part whose lowercase form is not
\* reserved, lowercased; None when the loop runs out
FirstUnreserved(parts) ==
    IF parts = <<>> THEN None
    ELSE IF Lower(Head(parts)) \notin RESERVED_SUBDOMAINS
         THEN Lower(Head(parts))
         ELSE FirstUnreserved(Tail(parts))

\* a plausible slip: the nested-subdomain loop walks from the right
RECURSIVE LastUnreserved(_)
LastUnreserved(parts) ==
    IF parts = <<>> THEN None
    ELSE IF Lower(parts[Len(parts)]) \notin RESERVED_SUBDOMAINS
         THEN Lower(parts[Len(parts)])
         ELSE LastUnreserved(SubSeq(parts, 1, Len(parts) - 1))

extract_subdomain_rightmost(host) ==
    IF host = "" THEN None
    ELSE LET h == BeforeFirst(host, ":")
         IN  IF h \in {"localhost", "127.0.0.1"} THEN None
             ELSE IF ~EndsWith(h, BASE_DOMAIN) THEN None
             ELSE LET subdomain_part ==
                          RStrip(SubSeq(h, 1, Len(h) - Len(BASE_DOMAIN)), ".")
                  IN  IF subdomain_part = "" THEN None
                      ELSE LastUnreserved(Split(subdomain_part, "."))

extract_subdomain(host) ==
    IF host = "" THEN None
    ELSE LET h == BeforeFirst(host, ":")
         IN  IF h \in {"localhost", "127.0.0.1"} THEN None
             ELSE IF ~EndsWith(h, BASE_DOMAIN) THEN None
             ELSE LET subdomain_part ==
                          RStrip(SubSeq(h, 1, Len(h) - Len(BASE_DOMAIN)), ".")
                      parts == Split(subdomain_part, ".")
                  IN  IF subdomain_part = "" THEN None
                      ELSE IF Len(parts) = 1
                           THEN IF Lower(parts[1]) \in RESERVED_SUBDOMAINS
                                THEN None
                                ELSE Lower(parts[1])
                           ELSE FirstUnreserved(parts)

(***************************************************************************)
(* SpecSlug: extract_subdomain applied to host strings.                    *)
(***************************************************************************)
MaxLabels == 2

Labels == {"hoosiers-football", "www", "api", "admin", "app", "localhost",
           "WWW", "x", "Huddle", ""}

RECURSIVE LabelPaths(_)
\* dotted prefixes of 1..n labels
LabelPaths(n) ==
    IF n = 1 THEN Labels
    ELSE LabelPaths(n - 1) \cup
         {p \o "." \o l : p \in LabelPaths(n - 1), l \in Labels}

Domains == {"alumnihuddle.com", "alumnihuddle.org", "Alumnihuddle.com",
            "alumnihuddle.com.evil.net"}
Ports == {"", ":3000", ":"}

Hosts ==
    {"", "localhost", "localhost:3000", "127.0.0.1", "127.0.0.1:8080",
     "alumnihuddle.com", "alumnihuddle.com:443"}
    \cup {p \o sep \o d \o port :
              p \in LabelPaths(MaxLabels), sep \in {".", ""},
              d \in Domains, port \in Ports}

ExOff == [pc |-> "off", host |-> "", result |-> None]

SlugInit ==
    /\ ex \in {[pc |-> "call", host |-> h, result |-> None] : h \in Hosts}

\* slug = extract_subdomain(host)
ExtractSubdomain ==
    /\ ex.pc = "call"
    /\ ex' = [ex EXCEPT !.pc = "done", !.result = extract_subdomain(ex.host)]

(***************************************************************************)
(* Directory (models/tenants.py)                                           *)
(***************************************************************************)
\* rows of the huddles table, keyed by their (lowercase, unique) slug
DbSlugs == {"x"}
NoRow == <<>>

Rows(s) == {[id |-> 7, name |-> "Huddle " \o s, slug |-> s, deleted |-> FALSE]}

\* HuddleModel.from_orm_with_str_id
from_orm_with_str_id(row) ==
    [id |-> ToString(row.id), name |-> row.name, slug |-> row.slug]

\* a slip: the query slug is compared as it was given
get_huddle_by_slug_exact(d, slug) ==
    LET key == slug
    IN  IF key \in DOMAIN d /\ d[key] # NoRow /\ ~d[key].deleted
        THEN from_orm_with_str_id(d[key])
        ELSE NoHuddle

\* HuddleTable.get_huddle_by_slug on the table contents d
get_huddle_by_slug(d, slug) ==
    LET key == Lower(slug)
    IN  IF key \in DOMAIN d /\ d[key] # NoRow /\ ~d[key].deleted
        THEN from_orm_with_str_id(d[key])
        ELSE NoHuddle

(***************************************************************************)
(* Resolution cache (middleware/tenant.py)                                 *)
(***************************************************************************)
CACHE_TTL_SECONDS == 300
NoEntry == <<>>

\* a slip: an entry is taken to be fresh for twice the TTL
FreshDoubleWindow(t, cached_at) == t - cached_at < 2 * CACHE_TTL_SECONDS

\* now - cached_at < CACHE_TTL_SECONDS, inverted
FreshInverted(t, cached_at) == t - cached_at > CACHE_TTL_SECONDS

\* now - cached_at < CACHE_TTL_SECONDS, with the boundary on the wrong side
FreshAtBoundary(t, cached_at) == t - cached_at <= CACHE_TTL_SECONDS

\* now - cached_at < CACHE_TTL_SECONDS
Fresh(t, cached_at) == t - cached_at < CACHE_TTL_SECONDS

\* slug in _huddle_cache
InCache(c, slug) == c[slug] # NoEntry

\* a slip: the entry is dropped instead of kept when the lookup fails
CacheAfterFailureDropped(c, slug) == [c EXCEPT ![slug] = NoEntry]

\* the except branch leaves _huddle_cache as it is
CacheAfterFailure(c, slug) == c

\* a slip: the first write wins, a later answer does not replace the entry
CacheStoreKeepFirst(c, slug, huddle, t) ==
    IF c[slug] # NoEntry THEN c
    ELSE [c EXCEPT ![slug] = [huddle |-> huddle, cached_at |-> t]]

\* a slip: storing an entry clears the entries of the other slugs
CacheStoreClearsOthers(c, slug, huddle, t) ==
    [s \in DOMAIN c |->
        IF s = slug THEN [huddle |-> huddle, cached_at |-> t] ELSE NoEntry]

\* a slip: absence is not stored
CacheStoreSkipNone(c, slug, huddle, t) ==
    IF huddle = NoHuddle THEN c
    ELSE [c EXCEPT ![slug] = [huddle |-> huddle, cached_at |-> t]]

\* _huddle_cache[slug] = (huddle, now)
CacheStore(c, slug, huddle, t) ==
    [c EXCEPT ![slug] = [huddle |-> huddle, cached_at |-> t]]

(***************************************************************************)
(* Tenant middleware (middleware/tenant.py)                                *)
(***************************************************************************)
\* requests served in one run
NumReqs == 2
\* clock advances in one run
MaxTicks == 2
Reqs == 1..NumReqs

\* clock advances seen between two reads of time.time()
TickSteps == {150}

\* request inputs
HostChoices == {"x.alumnihuddle.com", "www.alumnihuddle.com", "localhost:3000"}
HeaderChoices == {None, "", "x", "y"}
\* values of the DEFAULT_TENANT_SLUG environment variable
DefaultChoices == {None, "y"}

\* every slug dispatch can pass to get_cached_huddle
SlugKeys ==
    ({extract_subdomain(h) : h \in HostChoices} \cup HeaderChoices
        \cup DefaultChoices) \ {None, ""}

EmptyState ==
    [tenant |-> NoHuddle, tenant_id |-> None,
     huddle |-> NoHuddle, huddle_id |-> None]

NoFill == <<>>

\* pc: idle -> (resolve -> (db ->)) (publish ->) call_next -> handler -> done;
\* each request slot serves one request
\* host, hdr    the request's Host and x-tenant-subdomain headers
\* slug         dispatch's local slug
\* t            get_cached_huddle's local now
\* huddle       what get_cached_huddle returned
\* exc          the exception get_cached_huddle raised, None if it returned
\* state        request.state
\* history:  prior, priorFill  the entry and the last fill of slug when
\*           get_cached_huddle was entered; calls, dbfail  the Directory
\*           calls it made and whether one failed; downstream  how often
\*           call_next ran; guard, returned  what the guard did
IdleReq ==
    [pc |-> "idle", host |-> "", hdr |-> None, slug |-> None, t |-> 0,
     huddle |-> NoHuddle, exc |-> None, state |-> EmptyState,
     prior |-> NoEntry, priorFill |-> NoFill, calls |-> 0, dbfail |-> FALSE,
     downstream |-> 0, guard |-> "none", returned |-> NoHuddle]

\* a slip: the override header takes precedence over the host
ChooseSlugHeaderFirst(host, hdr, default) ==
    LET s1 == hdr
        s2 == IF s1 = None THEN extract_subdomain(host) ELSE s1
    IN  IF s2 = None /\ default # None /\ default # "" THEN default ELSE s2

\* lines 138-149 of dispatch: host, then override header, then default
ChooseSlug(host, hdr, default) ==
    LET s1 == extract_subdomain(host)
        s2 == IF s1 = None THEN hdr ELSE s1
    IN  IF s2 = None /\ default # None /\ default # "" THEN default ELSE s2

\* exceptions a Directory lookup raises (database driver errors)
DirectoryErrors == {"OperationalError"}

\* a slip: every exception is re-raised
OnLookupErrorReraise(kind) == "failed"

\* except HTTPException: raise / except Exception: log and go on
OnLookupError(kind) == IF kind = "HTTPException" THEN "failed" ELSE "call_next"

\* a slip: the huddle is stored without its id
PublishStateWithoutIds(huddle) ==
    IF huddle # NoHuddle
    THEN [tenant |-> huddle, tenant_id |-> None,
          huddle |-> huddle, huddle_id |-> None]
    ELSE EmptyState

\* a slip: only the tenant fields are set
PublishStateTenantOnly(huddle) ==
    IF huddle # NoHuddle
    THEN [tenant |-> huddle, tenant_id |-> huddle.id,
          huddle |-> NoHuddle, huddle_id |-> None]
    ELSE EmptyState

\* if huddle: request.state.tenant = huddle ... (lines 156-164)
PublishState(huddle) ==
    IF huddle # NoHuddle
    THEN [tenant |-> huddle, tenant_id |-> huddle.id,
          huddle |-> huddle, huddle_id |-> huddle.id]
    ELSE EmptyState

\* a slip: the guard hands back whatever the state holds
require_tenant_lenient(state) == [status |-> 200, value |-> state.tenant]

\* require_tenant: the huddle, or HTTP 400
require_tenant(state) ==
    IF state.tenant = NoHuddle
    THEN [status |-> 400, value |-> NoHuddle]
    ELSE [status |-> 200, value |-> state.tenant]

\* require_huddle
require_huddle(state) == require_tenant(state)

TenantInit ==
    /\ now = 0
    /\ ticks = 0
    /\ db = [s \in DbSlugs |-> NoRow]
    /\ cache = [s \in SlugKeys |-> NoEntry]
    /\ loop = 0
    /\ req = [r \in Reqs |-> IdleReq]
    /\ conf \in [enable : BOOLEAN, default_slug : DefaultChoices]
    /\ lastFill = [s \in SlugKeys |-> NoFill]

\* time passes
Tick ==
    /\ ticks < MaxTicks
    /\ \E d \in TickSteps : now' = now + d
    /\ ticks' = ticks + 1
    /\ UNCHANGED <<db, cache, loop, req, conf, lastFill>>

\* the external administrative surface creates, soft-deletes or removes a row
AdminWrite ==
    /\ \E s \in DbSlugs : \E row \in Rows(s) \cup {NoRow} :
          /\ row # db[s]
          /\ db' = [db EXCEPT ![s] = row]
    /\ UNCHANGED <<now, ticks, cache, loop, req, conf, lastFill>>

\* dispatch, lines 128-151: reset the state, pick the slug
Dispatch(r) ==
    /\ loop = 0
    /\ req[r].pc = "idle"
    /\ \E host \in HostChoices, hdr \in HeaderChoices :
          LET slug == ChooseSlug(host, hdr, conf.default_slug)
          IN  req' = [req EXCEPT ![r] =
                  [IdleReq EXCEPT
                     !.host = host, !.hdr = hdr,
                     !.slug = IF conf.enable THEN slug ELSE None,
                     !.pc = IF conf.enable /\ slug # None /\ slug # ""
                            THEN "resolve" ELSE "call_next"]]
    /\ loop' = r
    /\ UNCHANGED <<now, ticks, db, cache, conf, lastFill>>

\* get_cached_huddle, lines 35-41: read the clock, try the cache
GchCheck(r) ==
    /\ loop = r
    /\ req[r].pc = "resolve"
    /\ LET slug == req[r].slug
           hit == InCache(cache, slug) /\ Fresh(now, cache[slug].cached_at)
       IN  req' = [req EXCEPT
                     ![r].t = now,
                     ![r].prior = cache[slug],
                     ![r].priorFill = lastFill[slug],
                     ![r].huddle = IF hit THEN cache[slug].huddle ELSE NoHuddle,
                     ![r].pc = IF hit THEN "publish" ELSE "db"]
    /\ UNCHANGED <<now, ticks, db, cache, loop, conf, lastFill>>

\* get_cached_huddle, lines 45-47: the Directory answers
DbReturn(r) ==
    /\ loop = r
    /\ req[r].pc = "db"
    /\ LET slug == req[r].slug
           huddle == get_huddle_by_slug(db, slug)
       IN  /\ cache' = CacheStore(cache, slug, huddle, req[r].t)
           /\ lastFill' = [lastFill EXCEPT
                             ![slug] = [at |-> req[r].t, value |-> huddle]]
           /\ req' = [req EXCEPT ![r].huddle = huddle,
                                 ![r].calls = @ + 1,
                                 ![r].pc = "publish"]
    /\ UNCHANGED <<now, ticks, db, loop, conf>>

\* get_cached_huddle, lines 48-53, and dispatch, lines 166-169: the
\* Directory call raises
DbFail(r) ==
    /\ loop = r
    /\ req[r].pc = "db"
    /\ \E kind \in DirectoryErrors :
          LET slug == req[r].slug
              c == CacheAfterFailure(cache, slug)
          IN  /\ cache' = c
              /\ IF InCache(c, slug)
                 THEN req' = [req EXCEPT ![r].huddle = c[slug].huddle,
                                         ![r].calls = @ + 1,
                                         ![r].dbfail = TRUE,
                                         ![r].pc = "publish"]
                 ELSE req' = [req EXCEPT ![r].exc = kind,
                                         ![r].calls = @ + 1,
                                         ![r].dbfail = TRUE,
                                         ![r].pc = OnLookupError(kind)]
    /\ UNCHANGED <<now, ticks, db, loop, conf, lastFill>>

\* dispatch, lines 156-164: publish the huddle into request.state
Publish(r) ==
    /\ loop = r
    /\ req[r].pc = "publish"
    /\ req' = [req EXCEPT ![r].state = PublishState(req[r].huddle),
                          ![r].pc = "call_next"]
    /\ UNCHANGED <<now, ticks, db, cache, loop, conf, lastFill>>

\* dispatch, line 136 / 171: await call_next(request)
CallNext(r) ==
    /\ loop = r
    /\ req[r].pc = "call_next"
    /\ req' = [req EXCEPT ![r] =
                 [IdleReq EXCEPT !.pc = "handler",
                                 !.huddle = req[r].huddle,
                                 !.exc = req[r].exc,
                                 !.state = req[r].state,
                                 !.downstream = req[r].downstream + 1]]
    /\ loop' = 0
    /\ UNCHANGED <<now, ticks, db, cache, conf, lastFill>>

\* a downstream route that depends on require_tenant
HandlerRequireTenant(r) ==
    /\ loop = 0
    /\ req[r].pc = "handler"
    /\ LET g == require_tenant(req[r].state)
       IN  req' = [req EXCEPT ![r].guard = IF g.status = 200 THEN "ok" ELSE "400",
                              ![r].returned = g.value,
                              ![r].exc = None,
                              ![r].pc = "done"]
    /\ UNCHANGED <<now, ticks, db, cache, loop, conf, lastFill>>

\* a downstream route that depends on require_huddle
HandlerRequireHuddle(r) ==
    /\ loop = 0
    /\ req[r].pc = "handler"
    /\ LET g == require_huddle(req[r].state)
       IN  req' = [req EXCEPT ![r].guard = IF g.status = 200 THEN "ok" ELSE "400",
                              ![r].returned = g.value,
                              ![r].exc = None,
                              ![r].pc = "done"]
    /\ UNCHANGED <<now, ticks, db, cache, loop, conf, lastFill>>

\* a downstream route without the guard
HandlerPlain(r) ==
    /\ loop = 0
    /\ req[r].pc = "handler"
    /\ req' = [req EXCEPT ![r].pc = "done", ![r].exc = None]
    /\ UNCHANGED <<now, ticks, db, cache, loop, conf, lastFill>>

(***************************************************************************)
(* Specifications                                                          *)
(***************************************************************************)
FltOff == [pc |-> "off"]
RagOff == [pc |-> "off"]
DirOff == [pc |-> "off"]
ReadOff == [pc |-> "off"]

Init ==
    /\ TenantInit
    /\ ex = ExOff
    /\ flt = FltOff
    /\ rag = RagOff
    /\ dir = DirOff
    /\ readAt = ReadOff

Next ==
    \/ Tick /\ UNCHANGED <<ex, flt, rag, dir, readAt>>
    \/ AdminWrite /\ UNCHANGED <<ex, flt, rag, dir, readAt>>
    \/ \E r \in Reqs : Dispatch(r) /\ UNCHANGED <<ex, flt, rag, dir, readAt>>
    \/ \E r \in Reqs : GchCheck(r) /\ UNCHANGED <<ex, flt, rag, dir, readAt>>
    \/ \E r \in Reqs : DbReturn(r) /\ UNCHANGED <<ex, flt, rag, dir, readAt>>
    \/ \E r \in Reqs : DbFail(r) /\ UNCHANGED <<ex, flt, rag, dir, readAt>>
    \/ \E r \in Reqs : Publish(r) /\ UNCHANGED <<ex, flt, rag, dir, readAt>>
    \/ \E r \in Reqs : CallNext(r) /\ UNCHANGED <<ex, flt, rag, dir, readAt>>
    \/ \E r \in Reqs : HandlerRequireTenant(r) /\ UNCHANGED <<ex, flt, rag, dir, readAt>>
    \/ \E r \in Reqs : HandlerRequireHuddle(r) /\ UNCHANGED <<ex, flt, rag, dir, readAt>>
    \/ \E r \in Reqs : HandlerPlain(r) /\ UNCHANGED <<ex, flt, rag, dir, readAt>>

Spec == Init /\ [][Next]_vars

InitSlug ==
    /\ SlugInit
    /\ flt = FltOff
    /\ rag = RagOff
    /\ dir = DirOff
    /\ readAt = ReadOff
    /\ now = 0
    /\ ticks = 0
    /\ db = [s \in DbSlugs |-> NoRow]
    /\ cache = [s \in SlugKeys |-> NoEntry]
    /\ loop = 0
    /\ req = [r \in Reqs |-> IdleReq]
    /\ conf = [enable |-> TRUE, default_slug |-> None]
    /\ lastFill = [s \in SlugKeys |-> NoFill]

NextSlug == ExtractSubdomain /\ UNCHANGED <<tenantVars, flt, rag, dir>>

SpecSlug == InitSlug /\ [][NextSlug]_vars

(***************************************************************************)
(* Claims about the resolution cache                                       *)
(***************************************************************************)
\* get_cached_huddle has returned or raised and dispatch has not yet
\* handed the request on
Resolved(r) ==
    /\ req[r].pc \in {"publish", "call_next", "failed"}
    /\ req[r].slug \notin {None, ""}

\* the value the resolution gave its caller
Raised(r) == req[r].exc # None

\* C1: a resolution of slug s that starts less than the TTL after an earlier
\* resolution fetched and stored s makes no Directory call and returns the
\* very value that earlier resolution returned.
C1_CacheHitIdempotent ==
    \A r \in Reqs :
        (/\ Resolved(r)
         /\ req[r].priorFill # NoFill
         /\ req[r].t - req[r].priorFill.at < CACHE_TTL_SECONDS)
        => /\ req[r].calls = 0
           /\ ~Raised(r)
           /\ req[r].huddle = req[r].priorFill.value

\* a second resolution inside the window after the Directory content changed
C1_Witness ==
    \E r \in Reqs :
        /\ Resolved(r)
        /\ req[r].priorFill # NoFill
        /\ req[r].priorFill.value # NoHuddle
        /\ req[r].t > req[r].priorFill.at
        /\ req[r].t - req[r].priorFill.at < CACHE_TTL_SECONDS
        /\ req[r].calls = 0
        /\ get_huddle_by_slug(db, req[r].slug) # req[r].huddle

\* C2: when the Directory call of a resolution fails, an existing entry
\* (fresh or expired) is returned and nothing is raised; without an entry the
\* failure reaches the caller.
C2_FailureFallsBackToEntry ==
    \A r \in Reqs :
        (Resolved(r) /\ req[r].dbfail)
        => IF req[r].prior # NoEntry
           THEN ~Raised(r) /\ req[r].huddle = req[r].prior.huddle
           ELSE Raised(r)

\* a failed lookup served from an expired entry whose value is out of date
C2_Witness ==
    \E r \in Reqs :
        /\ Resolved(r)
        /\ req[r].dbfail
        /\ req[r].prior # NoEntry
        /\ req[r].t - req[r].prior.cached_at >= CACHE_TTL_SECONDS
        /\ req[r].huddle = req[r].prior.huddle
        /\ req[r].huddle # NoHuddle
        /\ ~Raised(r)

\* C3: a resolution that finds the entry of its slug expired makes exactly
\* one Directory call, whatever the other requests in flight are doing.
C3_ExpiredMeansOneCall ==
    \A r \in Reqs :
        (/\ Resolved(r)
         /\ req[r].prior # NoEntry
         /\ req[r].t - req[r].prior.cached_at >= CACHE_TTL_SECONDS)
        => req[r].calls = 1

\* an expired resolution, one call made, while another request that was
\* bound through the same entry is still in flight
C3_Witness ==
    \E r \in Reqs : \E o \in Reqs \ {r} :
        /\ Resolved(r)
        /\ req[r].prior # NoEntry
        /\ req[r].t - req[r].prior.cached_at >= CACHE_TTL_SECONDS
        /\ req[r].calls = 1
        /\ req[o].pc = "handler"
        /\ req[o].state.tenant # NoHuddle
        /\ req[o].state.tenant.slug = Lower(req[r].slug)

\* C4: after a lookup that found no organization was stored, resolutions of
\* the slug in the next 300 s return absent without a Directory call, even
\* if the organization exists by then; a resolution after that calls the
\* Directory again.
C4_NegativeResultCached ==
    \A r \in Reqs :
        (/\ Resolved(r)
         /\ req[r].priorFill # NoFill
         /\ req[r].priorFill.value = NoHuddle)
        => IF req[r].t - req[r].priorFill.at < 300
           THEN req[r].calls = 0 /\ req[r].huddle = NoHuddle /\ ~Raised(r)
           ELSE req[r].calls = 1

\* absent served from the cache although the organization now exists
C4_Witness ==
    \E r \in Reqs :
        /\ Resolved(r)
        /\ req[r].priorFill # NoFill
        /\ req[r].priorFill.value = NoHuddle
        /\ req[r].t - req[r].priorFill.at < 300
        /\ req[r].calls = 0
        /\ req[r].huddle = NoHuddle
        /\ get_huddle_by_slug(db, req[r].slug) # NoHuddle

\* the negative entry has expired and the Directory is asked again
C4_WitnessExpired ==
    \E r \in Reqs :
        /\ Resolved(r)
        /\ req[r].priorFill # NoFill
        /\ req[r].priorFill.value = NoHuddle
        /\ req[r].t - req[r].priorFill.at >= 300
        /\ req[r].calls = 1
        /\ req[r].huddle # NoHuddle

(***************************************************************************)
(* Claims about the tenant middleware and the guard                        *)
(***************************************************************************)
\* dispatch has picked its slug and has not yet awaited call_next
InDispatch(r) == req[r].pc \in {"resolve", "db", "publish", "call_next", "failed"}

\* the configured default is usable (if ... and DEFAULT_TENANT_SLUG)
HasDefault == conf.default_slug \notin {None, ""}

C7_LookupFailureProceeds ==
    \A r \in Reqs :
        /\ req[r].pc # "failed"
        /\ Raised(r) => /\ req[r].pc \in {"call_next", "handler"}
                        /\ req[r].state = EmptyState
                        /\ req[r].downstream = (IF req[r].pc = "handler" THEN 1 ELSE 0)

\* the handler runs for a request whose lookup raised
C7_Witness ==
    \E r \in Reqs :
        /\ req[r].pc = "handler"
        /\ Raised(r)
        /\ req[r].downstream = 1
        /\ req[r].state = EmptyState

\* C8: the guard returns exactly the organization the request context holds
\* when there is one and answers HTTP 400 when there is none; it never
\* returns an absent value.
C8_GuardReturnsContextOr400 ==
    \A r \in Reqs :
        (req[r].pc = "done" /\ req[r].guard # "none")
        => /\ req[r].state.tenant # NoHuddle
                => req[r].guard = "ok" /\ req[r].returned = req[r].state.tenant
           /\ req[r].state.tenant = NoHuddle => req[r].guard = "400"
           /\ req[r].guard = "ok" => /\ req[r].returned # NoHuddle
                                     /\ req[r].returned = req[r].huddle

\* one guarded request answered with its organization, another with 400
C8_Witness ==
    \E r, o \in Reqs :
        /\ req[r].pc = "done" /\ req[r].guard = "ok"
        /\ req[r].returned # NoHuddle
        /\ req[o].pc = "done" /\ req[o].guard = "400"

(***************************************************************************)
(* Claims about slug extraction                                            *)
(***************************************************************************)
\* the host with its port removed: the longest prefix without a colon
C5_NoPort(host) ==
    LET n == CHOOSE k \in 0..Len(host) :
                 /\ \A i \in 1..k : CharAt(host, i) # ":"
                 /\ k < Len(host) => CharAt(host, k + 1) = ":"
    IN  SubSeq(host, 1, n)

\* what is left of the base domain, without the dots that separate it
C5_Remainder(h) ==
    LET left == SubSeq(h, 1, Len(h) - Len(BASE_DOMAIN))
        n == CHOOSE k \in 0..Len(left) :
                 /\ k > 0 => CharAt(left, k) # "."
                 /\ \A i \in (k + 1)..Len(left) : CharAt(left, i) = "."
    IN  SubSeq(left, 1, n)

\* the parts of a dotted name, by where each starts
C5_Starts(rem) == {1} \cup {i + 1 : i \in {j \in 1..Len(rem) : CharAt(rem, j) = "."}}

C5_PartAt(rem, a) ==
    LET stops == {j \in a..Len(rem) : CharAt(rem, j) = "."} \cup {Len(rem) + 1}
        e == CHOOSE j \in stops : \A k \in stops : j <= k
    IN  SubSeq(rem, a, e - 1)

\* the slug the description of the extraction gives for a host
C5_Expected(host) ==
    LET h == C5_NoPort(host)
    IN  IF ~EndsWith(h, BASE_DOMAIN) THEN None
        ELSE LET rem == C5_Remainder(h)
                 ok == {a \in C5_Starts(rem) :
                           Lower(C5_PartAt(rem, a)) \notin RESERVED_SUBDOMAINS}
             IN  IF rem = "" \/ ok = {} THEN None
                 ELSE Lower(C5_PartAt(rem, CHOOSE a \in ok : \A b \in ok : a <= b))

\* C5: extract_subdomain strips the port; for a host ending with the base
\* domain it returns, lowercased, the leftmost dot-separated part of the left
\* remainder that is not reserved; it returns no slug when the host does not
\* end with the base domain, the remainder is empty or every part is
\* reserved.  The four documented hosts give the documented results.
C5_ExtractionRule ==
    ex.pc = "done" =>
        /\ ex.result = C5_Expected(ex.host)
        /\ ex.host = "hoosiers-football.alumnihuddle.com"
              => ex.result = "hoosiers-football"
        /\ ex.host \in {"www.alumnihuddle.com", "alumnihuddle.com",
                        "localhost:3000"}
              => ex.result = None

\* a nested host with a port: the reserved part is skipped, the next part
\* is lowercased and returned
C5_Witness ==
    /\ ex.pc = "done"
    /\ ex.host = "www.Huddle.alumnihuddle.com:3000"
    /\ ex.result = "huddle"

(***************************************************************************)
(* Model-listing filter (middleware/model_filter.py)                       *)
(*                                                                         *)
(* Bytes are modelled by what they encode: the content coding applied to   *)
(* them, how the text was produced, and the JSON document it spells.       *)
(***************************************************************************)
\* entries of one listing
MaxModels == 3

\* get_huddle_model_id
get_huddle_model_id(huddle) == "alumnihuddle-" \o huddle.slug

\* elements of a listing: model objects (two of them share an id) and a bare
\* JSON string, which has no .get
Elements ==
    {[obj |-> TRUE, id |-> "alumnihuddle-x", name |-> "a"],
     [obj |-> TRUE, id |-> "alumnihuddle-x", name |-> "b"],
     [obj |-> TRUE, id |-> "claude-raw", name |-> "a"],
     [obj |-> TRUE, id |-> "alumnihuddle-y", name |-> "a"],
     [obj |-> FALSE, id |-> None, name |-> "alumnihuddle-x"]}

RECURSIVE Listings(_)
\* sequences of at most n elements
Listings(n) ==
    IF n = 0 THEN {<<>>}
    ELSE Listings(n - 1) \cup
         {Append(l, e) : l \in {m \in Listings(n - 1) : Len(m) = n - 1},
                         e \in Elements}

\* JSON documents: an object with a "data" list, an object without "data",
\* an object whose "data" is not a list, a top-level array, a number
Docs ==
    {[top |-> "obj", data |-> "list", items |-> l] : l \in Listings(MaxModels)}
    \cup {[top |-> "obj", data |-> "absent", items |-> <<>>],
          [top |-> "obj", data |-> "other", items |-> <<>>],
          [top |-> "array", data |-> "absent", items |-> <<>>],
          [top |-> "number", data |-> "absent", items |-> <<>>]}

NoDoc == [top |-> "none", data |-> "absent", items |-> <<>>]

\* b"" : what an exhausted body iterator yields
EmptyBytes == [coding |-> "identity", form |-> "empty", doc |-> NoDoc]

\* bytes that are not JSON text
MalformedBytes == [coding |-> "identity", form |-> "malformed", doc |-> NoDoc]

\* the upstream handler's serialisation of a document
UpstreamText(doc) == [coding |-> "identity", form |-> "upstream", doc |-> doc]

\* bytes after a content coding has been applied
Encoded(b, coding) == [b EXCEPT !.coding = coding]

\* gzip.decompress(body): raises unless the bytes are a gzip stream
gzip_decompress(b) ==
    IF b.coding = "gzip"
    THEN [ok |-> TRUE, bytes |-> [b EXCEPT !.coding = "identity"]]
    ELSE [ok |-> FALSE, bytes |-> b]

\* json.loads(body.decode("utf-8")): raises on encoded or malformed bytes
json_loads(b) ==
    IF b.coding = "identity" /\ b.form \in {"upstream", "dumps"}
    THEN [ok |-> TRUE, doc |-> b.doc]
    ELSE [ok |-> FALSE, doc |-> NoDoc]

\* json.dumps(data).encode("utf-8")
json_dumps(doc) == [coding |-> "identity", form |-> "dumps", doc |-> doc]

\* len(body); the sizes are symbolic: empty is 0, every entry adds to the
\* size, json.dumps spaces its separators, a coding changes the size
ByteLen(b) ==
    IF b.form = "empty" THEN 0
    ELSE LET text == IF b.form = "malformed" THEN 7
                     ELSE 11 + 40 * Len(b.doc.items)
                             + (IF b.form = "dumps" THEN 1 + Len(b.doc.items) ELSE 0)
         IN  IF b.coding = "identity" THEN text ELSE 20 + text \div 2

\* no Content-Length header
NoLength == 0 - 1

RECURSIVE Contains(_, _)
\* sub in s
Contains(s, sub) ==
    IF Len(s) < Len(sub) THEN FALSE
    ELSE IF SubSeq(s, 1, Len(sub)) = sub THEN TRUE
    ELSE Contains(Tail(s), sub)

\* a slip: the chat path is intercepted as well
FILTERED_PATHS_AND_CHAT ==
    {"/api/models", "/api/v1/models", "/api/chat/completions"}

\* if path not in ["/api/models", "/api/v1/models"] (line 40)
FILTERED_PATHS == {"/api/models", "/api/v1/models"}

\* lines 87-96: if "data" in data and isinstance(data["data"], list), keep
\* the elements whose id is the huddle's model id; .get on an element that
\* is no object, or `in` on a number, raises
FilterModels(doc, huddle_model_id) ==
    LET Mine(e) == e.id = huddle_model_id
    IN  IF doc.top = "number" THEN [ok |-> FALSE, doc |-> doc]
        ELSE IF doc.top = "obj" /\ doc.data = "list"
        THEN IF \E i \in 1..Len(doc.items) : ~doc.items[i].obj
             THEN [ok |-> FALSE, doc |-> doc]
             ELSE [ok |-> TRUE,
                   doc |-> [doc EXCEPT !.items = SelectSeq(doc.items, Mine)]]
        ELSE [ok |-> TRUE, doc |-> doc]

\* getattr(request.state, "huddle", None) or getattr(request.state, "tenant", None)
ContextHuddle(state) ==
    IF state.huddle # NoHuddle THEN state.huddle ELSE state.tenant

\* Response(content=..., status_code=..., headers=new_headers): the old
\* Content-Length and Content-Encoding are dropped and Starlette sets
\* Content-Length from the new content
NewResponse(up, content) ==
    [status |-> up.status, ctype |-> up.ctype, cenc |-> None,
     clen |-> ByteLen(content), body |-> content]

\* `return response` after the body iterator was drained: the upstream
\* headers go out again, the iterator has nothing left to send
DrainedResponse(up) == [up EXCEPT !.body = EmptyBytes]

\* lines 72-129, from the buffered body to the response returned
Rewrite(up, body, huddle) ==
    LET unzip == IF up.cenc = "gzip" THEN gzip_decompress(body)
                 ELSE [ok |-> TRUE, bytes |-> body]
    IN  IF ~unzip.ok THEN DrainedResponse(up)
        ELSE LET parsed == json_loads(unzip.bytes)
                 kept == FilterModels(parsed.doc, get_huddle_model_id(huddle))
             IN  IF parsed.ok /\ kept.ok
                 THEN NewResponse(up, json_dumps(kept.doc))
                 ELSE NewResponse(up, unzip.bytes)

\* the organization the tenant middleware binds for slug x
HuddleX == from_orm_with_str_id(CHOOSE row \in Rows("x") : TRUE)

\* upstream responses: status, Content-Type, Content-Encoding,
\* Content-Length (NoLength when the upstream sent none) and the body
Bodies ==
    {UpstreamText(d) : d \in Docs} \cup {MalformedBytes}

Upstreams ==
    {[status |-> st, ctype |-> ct, cenc |-> enc.hdr,
      clen |-> IF haslen THEN ByteLen(Encoded(b, enc.coding)) ELSE NoLength,
      body |-> Encoded(b, enc.coding)] :
        st \in {200, 503},
        ct \in {"application/json", "text/html; charset=utf-8"},
        enc \in {[hdr |-> None, coding |-> "identity"],
                 [hdr |-> "gzip", coding |-> "gzip"],
                 [hdr |-> "br", coding |-> "br"],
                 [hdr |-> "gzip", coding |-> "identity"]},
        haslen \in BOOLEAN,
        b \in Bodies}

NoResponse == [status |-> 0, ctype |-> None, cenc |-> None, clen |-> NoLength,
               body |-> EmptyBytes]

\* pc: start -> (got -> (read -> (decode ->))) done
\* path, state  the request's path and request.state
\* up           the response call_next returned
\* body         the local body
\* consumed     whether the upstream body iterator was drained
\* out          the response dispatch returned
FltStart(path, state, up) ==
    [pc |-> "start", path |-> path, state |-> state, up |-> up,
     body |-> EmptyBytes, consumed |-> FALSE, out |-> NoResponse]

FilterInit ==
    flt \in {FltStart(path, state, up) :
                path \in FILTERED_PATHS \cup {"/api/chat/completions"},
                state \in {EmptyState, PublishState(HuddleX)},
                up \in Upstreams}

\* lines 39-47: only the two listing paths are intercepted
FltIntercept ==
    /\ flt.pc = "start"
    /\ flt' = IF flt.path \notin FILTERED_PATHS
              THEN [flt EXCEPT !.pc = "done", !.out = flt.up]
              ELSE [flt EXCEPT !.pc = "got"]

\* lines 49-64: no huddle, or not JSON: the response goes back as it is
FltContext ==
    /\ flt.pc = "got"
    /\ flt' = IF ContextHuddle(flt.state) = NoHuddle
                 \/ ~Contains(flt.up.ctype, "application/json")
              THEN [flt EXCEPT !.pc = "done", !.out = flt.up]
              ELSE [flt EXCEPT !.pc = "read"]

\* lines 67-70: the body iterator is read to its end
FltRead ==
    /\ flt.pc = "read"
    /\ flt' = [flt EXCEPT !.pc = "decode", !.body = flt.up.body,
                          !.consumed = TRUE]

\* lines 67-70 and 118-129: the body iterator raises before a chunk came;
\* the handler answers with what was buffered
FltReadFail ==
    /\ flt.pc = "read"
    /\ flt' = [flt EXCEPT !.pc = "done", !.consumed = TRUE,
                          !.out = NewResponse(flt.up, EmptyBytes)]

\* lines 72-129: decompress, parse, filter, answer
FltRewrite ==
    /\ flt.pc = "decode"
    /\ flt' = [flt EXCEPT !.pc = "done",
                          !.out = Rewrite(flt.up, flt.body,
                                          ContextHuddle(flt.state))]

InitFilter ==
    /\ FilterInit
    /\ ex = ExOff
    /\ rag = RagOff
    /\ dir = DirOff
    /\ readAt = ReadOff
    /\ now = 0
    /\ ticks = 0
    /\ db = [s \in DbSlugs |-> NoRow]
    /\ cache = [s \in SlugKeys |-> NoEntry]
    /\ loop = 0
    /\ req = [r \in Reqs |-> IdleReq]
    /\ conf = [enable |-> TRUE, default_slug |-> None]
    /\ lastFill = [s \in SlugKeys |-> NoFill]

NextFilter ==
    \/ FltIntercept /\ UNCHANGED <<tenantVars, ex, rag, dir>>
    \/ FltContext /\ UNCHANGED <<tenantVars, ex, rag, dir>>
    \/ FltRead /\ UNCHANGED <<tenantVars, ex, rag, dir>>
    \/ FltReadFail /\ UNCHANGED <<tenantVars, ex, rag, dir>>
    \/ FltRewrite /\ UNCHANGED <<tenantVars, ex, rag, dir>>

SpecFilter == InitFilter /\ [][NextFilter]_vars

(***************************************************************************)
(* Claims about the model-listing filter                                   *)
(***************************************************************************)
\* the listing a client reads from a response: the body decoded by the
\* coding its Content-Encoding announces, parsed, and its "data" list taken
ListingOf(resp) ==
    LET announced == IF resp.cenc = None THEN "identity" ELSE resp.cenc
        readable == /\ resp.body.coding = announced
                    /\ resp.body.form \in {"upstream", "dumps"}
                    /\ resp.body.doc.top = "obj"
                    /\ resp.body.doc.data = "list"
    IN  [ok |-> readable,
         items |-> IF readable THEN resp.body.doc.items ELSE <<>>]

\* a model-listing response with a JSON body whose top-level list can be read
IsJsonListing(path, up) ==
    /\ path \in FILTERED_PATHS
    /\ up.ctype = "application/json"
    /\ ListingOf(up).ok

\* the upstream body reached the middleware whole, if it was read at all
BodyDelivered == flt.consumed => flt.body = flt.up.body

\* the elements of l whose id is the model id of the organization with slug
\* `slug`, in their order
OwnModels(l, slug) ==
    LET Own(e) == e.obj /\ e.id = "alumnihuddle-" \o slug
    IN  SelectSeq(l, Own)

Bound(state) == state.tenant # NoHuddle

\* C9: for a model-listing response with a JSON body whose top-level list
\* is L, a request bound to the organization with slug x is answered with
\* exactly the elements of L whose id is "alumnihuddle-" + x, in order; a
\* request bound to no organization is answered with the upstream response
\* unchanged.
C9_ListingFilteredToOwnModel ==
    (flt.pc = "done" /\ IsJsonListing(flt.path, flt.up) /\ BodyDelivered)
    => IF Bound(flt.state)
       THEN /\ ListingOf(flt.out).ok
            /\ ListingOf(flt.out).items =
                  OwnModels(ListingOf(flt.up).items, flt.state.tenant.slug)
       ELSE flt.out = flt.up /\ ~flt.consumed

\* C10: for a request bound to an organization the emitted listing has at
\* most one entry, and that entry is the organization's model, whatever the
\* upstream listing held.
C10_AtMostOwnModel ==
    (/\ flt.pc = "done"
     /\ IsJsonListing(flt.path, flt.up)
     /\ BodyDelivered
     /\ Bound(flt.state)
     /\ ListingOf(flt.out).ok)
    => LET l == ListingOf(flt.out).items
       IN  /\ Len(l) <= 1
           /\ \A i \in 1..Len(l) :
                 /\ l[i].obj
                 /\ l[i].id = "alumnihuddle-" \o flt.state.tenant.slug

\* a bound request, a JSON listing sent brotli-encoded: the answer is not
\* the filtered listing
FilterSkipsBrotliListing ==
    /\ flt.pc = "done"
    /\ IsJsonListing(flt.path, flt.up)
    /\ BodyDelivered
    /\ Bound(flt.state)
    /\ flt.up.body.coding = "br"
    /\ Len(ListingOf(flt.up).items) = 2
    /\ ~ListingOf(flt.out).ok
    /\ flt.out.body = flt.up.body

\* a bound request, an upstream listing that names the organization's model
\* twice: both entries are emitted
FilterKeepsDuplicates ==
    /\ flt.pc = "done"
    /\ IsJsonListing(flt.path, flt.up)
    /\ BodyDelivered
    /\ Bound(flt.state)
    /\ ListingOf(flt.out).ok
    /\ Len(ListingOf(flt.out).items) = 2
    /\ \A i \in 1..2 : ListingOf(flt.out).items[i].id = "alumnihuddle-x"

\* where the filter is exact: the body is plain or gzip as announced and
\* every entry of the listing is an object
FilterExactOnDecodedListings ==
    (/\ flt.pc = "done"
     /\ IsJsonListing(flt.path, flt.up)
     /\ BodyDelivered
     /\ Bound(flt.state)
     /\ flt.up.body.coding \in {"identity", "gzip"}
     /\ \A i \in 1..Len(ListingOf(flt.up).items) : ListingOf(flt.up).items[i].obj)
    => /\ ListingOf(flt.out).ok
       /\ ListingOf(flt.out).items =
             OwnModels(ListingOf(flt.up).items, flt.state.tenant.slug)

\* the body after the announced gzip coding was undone (lines 73-79)
Unzipped(up, body) ==
    IF up.cenc = "gzip" THEN gzip_decompress(body)
    ELSE [ok |-> TRUE, bytes |-> body]

\* the body iterator raised before the body was whole
ReadFailed == flt.consumed /\ flt.body # flt.up.body

\* gzip.decompress raised on the buffered body
DecodeFailed == flt.consumed /\ ~ReadFailed /\ ~Unzipped(flt.up, flt.body).ok

\* json.loads or the filtering of the parsed document raised
ParseFailed ==
    /\ flt.consumed /\ ~ReadFailed
    /\ Unzipped(flt.up, flt.body).ok
    /\ LET parsed == json_loads(Unzipped(flt.up, flt.body).bytes)
       IN  \/ ~parsed.ok
           \/ ~FilterModels(parsed.doc,
                            get_huddle_model_id(ContextHuddle(flt.state))).ok

\* C11: a response emitted after the upstream body was read carries no
\* Content-Length, or one equal to the length of the bytes it returns; this
\* covers the filtered path and every pass-through-on-error path, a failed
\* decompression included.
C11_LengthHeaderMatchesBody ==
    (flt.pc = "done" /\ flt.consumed)
    => flt.out.clen \in {NoLength, ByteLen(flt.out.body)}

\* C12: when buffering, decompressing or parsing the upstream body fails,
\* the response carries the original body bytes (as buffered, or with the
\* announced gzip coding undone), has no Content-Encoding, does not carry
\* the upstream Content-Length, and keeps the upstream status code.
C12_FailureFallsBackToBody ==
    (flt.pc = "done" /\ (ReadFailed \/ DecodeFailed \/ ParseFailed))
    => /\ flt.out.body \in {flt.body, Unzipped(flt.up, flt.body).bytes}
       /\ flt.out.cenc = None
       /\ flt.out.clen \in {NoLength, ByteLen(flt.out.body)}
       /\ flt.out.status = flt.up.status

\* Content-Encoding: gzip on a body that is no gzip stream, Content-Length
\* present: the upstream response goes out again with its headers and with
\* no bytes left to send
FilterDrainedKeepsHeaders ==
    /\ flt.pc = "done"
    /\ DecodeFailed
    /\ flt.up.clen # NoLength
    /\ flt.out.clen = flt.up.clen
    /\ flt.out.cenc = "gzip"
    /\ flt.out.body = EmptyBytes
    /\ ByteLen(flt.out.body) # flt.out.clen

\* where the fallback is as described: the failures caught by the handler
\* of lines 118-129 and the filtered path
FilterFallbackOnCaughtFailures ==
    (flt.pc = "done" /\ flt.consumed /\ ~DecodeFailed)
    => /\ flt.out.cenc = None
       /\ flt.out.clen = ByteLen(flt.out.body)
       /\ flt.out.status = flt.up.status
       /\ (ReadFailed \/ ParseFailed)
             => flt.out.body \in {flt.body, Unzipped(flt.up, flt.body).bytes}

(***************************************************************************)
(* Mentor records (models/mentors.py)                                      *)
(***************************************************************************)
\* MentorTable.MENTOR_STATUS
MENTOR_STATUS == "Willing to mentor"

\* huddle ids in the profiles table; 7 is the huddle with slug x
OrgIds == {7, 8}

\* the organization with id 8
HuddleY == from_orm_with_str_id([id |-> 8, name |-> "Huddle y", slug |-> "y",
                                 deleted |-> FALSE])

\* rows of the profiles table as the run starts: two mentors of huddle 7,
\* one of huddle 8
InitialProfiles ==
    [m \in {1, 2, 3} |->
        [id |-> m,
         huddle_id |-> IF m = 3 THEN 8 ELSE 7,
         full_name |-> CASE m = 1 -> "Cy" [] m = 2 -> "Ada" [] OTHER -> "Ben",
         class_year |-> 2000 + m,
         metro_area |-> "NYC",
         current_company |-> IF m = 1 THEN "Acme" ELSE None,
         title |-> IF m = 3 THEN None ELSE "CFO",
         prior_roles |-> None,
         industry |-> IF m = 2 THEN "Finance" ELSE "",
         skills_experience |-> None,
         mentorship_status |-> MENTOR_STATUS,
         deleted |-> FALSE]]

\* ORDER BY full_name ASC on the names of the table
NameRank(n) == CASE n = "Ada" -> 1 [] n = "Ben" -> 2 [] OTHER -> 3

\* MentorProfileModel.from_orm_with_str_id (the two URL fields, which no
\* operation reads, are left out)
mentor_from_orm_with_str_id(profile) ==
    [id |-> ToString(profile.id),
     huddle_id |-> ToString(profile.huddle_id),
     full_name |-> profile.full_name,
     class_year |-> profile.class_year,
     metro_area |-> profile.metro_area,
     current_company |-> profile.current_company,
     title |-> profile.title,
     prior_roles |-> profile.prior_roles,
     industry |-> profile.industry,
     skills_experience |-> profile.skills_experience]

\* truth value of an Optional[str]
Truthy(v) == v # None /\ v # ""

RECURSIVE Join(_)
\* "\n".join(parts)
Join(parts) ==
    IF parts = <<>> THEN ""
    ELSE IF Len(parts) = 1 THEN parts[1]
    ELSE parts[1] \o "\n" \o Join(Tail(parts))

\* MentorProfileModel.to_rag_document
to_rag_document(self) ==
    LET head == <<"Name: " \o self.full_name,
                  "Class Year: " \o ToString(self.class_year),
                  "Location: " \o self.metro_area>>
        role == IF Truthy(self.title) /\ Truthy(self.current_company)
                THEN <<"Current Role: " \o self.title \o " at "
                                         \o self.current_company>>
                ELSE IF Truthy(self.title)
                THEN <<"Current Role: " \o self.title>>
                ELSE IF Truthy(self.current_company)
                THEN <<"Current Company: " \o self.current_company>>
                ELSE <<>>
        ind == IF Truthy(self.industry)
               THEN <<"Industry: " \o self.industry>> ELSE <<>>
        skl == IF Truthy(self.skills_experience)
               THEN <<"Skills & Experience: " \o self.skills_experience>>
               ELSE <<>>
        pri == IF Truthy(self.prior_roles)
               THEN <<"Prior Roles: " \o self.prior_roles>> ELSE <<>>
    IN  Join(head \o role \o ind \o skl \o pri)

\* the rows a mentor query sees: the status is the sentinel and deleted_at
\* is unset
Visible(row) == row.mentorship_status = MENTOR_STATUS /\ ~row.deleted

RECURSIVE SortByName(_, _)
\* the rows of `rows` (a set of row ids of table p), by full_name ascending
SortByName(p, rows) ==
    IF rows = {} THEN <<>>
    ELSE LET first == CHOOSE m \in rows :
                         \A o \in rows :
                            NameRank(p[m].full_name) <= NameRank(p[o].full_name)
         IN  <<p[first]>> \o SortByName(p, rows \ {first})

\* a slip: deleted rows are not filtered out
get_mentors_by_huddle_unfiltered(p, huddle_id, skip, limit) ==
    LET rows == {m \in DOMAIN p : ToString(p[m].huddle_id) = huddle_id}
        sorted == SortByName(p, rows)
        offs == IF skip # 0 THEN SubSeq(sorted, skip + 1, Len(sorted)) ELSE sorted
        page == IF limit # 0 /\ Len(offs) > limit THEN SubSeq(offs, 1, limit)
                ELSE offs
    IN  [i \in 1..Len(page) |-> mentor_from_orm_with_str_id(page[i])]

\* MentorTable.get_mentors_by_huddle on the table contents p
get_mentors_by_huddle(p, huddle_id, skip, limit) ==
    LET rows == {m \in DOMAIN p : /\ ToString(p[m].huddle_id) = huddle_id
                                  /\ Visible(p[m])}
        sorted == SortByName(p, rows)
        offs == IF skip # 0 THEN SubSeq(sorted, skip + 1, Len(sorted)) ELSE sorted
        page == IF limit # 0 /\ Len(offs) > limit THEN SubSeq(offs, 1, limit)
                ELSE offs
    IN  [i \in 1..Len(page) |-> mentor_from_orm_with_str_id(page[i])]

\* Optional[MentorProfileModel] None
NoMentor == <<>>

\* MentorTable.get_mentor_by_id on the table contents p
get_mentor_by_id(p, mentor_id) ==
    LET rows == {m \in DOMAIN p : ToString(p[m].id) = mentor_id /\ Visible(p[m])}
    IN  IF rows = {} THEN NoMentor
        ELSE mentor_from_orm_with_str_id(p[CHOOSE m \in rows : TRUE])

(***************************************************************************)
(* The vector store behind VECTOR_DB_CLIENT, by the interface the service  *)
(* uses: collections of items keyed by id.                                 *)
(***************************************************************************)
\* get_mentor_collection_name
get_mentor_collection_name(huddle_id) == "mentors-" \o huddle_id

\* the ids a huddle_id argument takes
HuddleIds == {ToString(h) : h \in OrgIds}

CollectionNames == {get_mentor_collection_name(h) : h \in HuddleIds}

\* a collection that was never created
NoCollection == [exists |-> FALSE, items |-> {}]

\* a slip: every collection is taken to exist
has_collection_always(v, name) == TRUE

\* VECTOR_DB_CLIENT.has_collection
has_collection(v, name) == v[name].exists

\* a slip: the collection is rebuilt from the item alone
upsert_rebuilding(v, name, item) ==
    [v EXCEPT ![name] = [exists |-> TRUE, items |-> {item}]]

\* VECTOR_DB_CLIENT.upsert: the collection is created on first use and an
\* item replaces the one with its id
upsert(v, name, item) ==
    [v EXCEPT ![name] =
        [exists |-> TRUE,
         items |-> {it \in v[name].items : it.id # item.id} \cup {item}]]

\* a slip: the whole collection is emptied
delete_everything(v, name, ids) ==
    [v EXCEPT ![name].items = {}]

\* VECTOR_DB_CLIENT.delete
delete(v, name, ids) ==
    [v EXCEPT ![name].items = {it \in v[name].items : it.id \notin ids}]

RECURSIVE Rankings(_, _)
\* the orders in which n of the items can come back from a query
Rankings(items, n) ==
    IF n = 0 \/ items = {} THEN {<<>>}
    ELSE UNION {{<<it>> \o r : r \in Rankings(items \ {it}, n - 1)} :
                    it \in items}

\* VECTOR_DB_CLIENT.search: parallel ids, distances and documents of at most
\* `limit` items, nearest first; which items are nearest is the embedding's
\* business, so every ranking is possible
SearchHits(v, name, limit) ==
    {[k \in 1..Len(r) |-> [id |-> r[k].id, distance |-> k,
                           document |-> r[k].text]] :
        r \in Rankings(v[name].items, limit)}

(***************************************************************************)
(* MentorRAGService (services/mentor_rag.py)                               *)
(***************************************************************************)
\* a slip: the item is keyed by the organization, not by the mentor
IndexItemKeyedByHuddle(mentor) ==
    [id |-> mentor.huddle_id,
     text |-> to_rag_document(mentor),
     metadata |-> [mentor_id |-> mentor.id,
                   huddle_id |-> mentor.huddle_id,
                   full_name |-> mentor.full_name,
                   title |-> IF Truthy(mentor.title) THEN mentor.title ELSE "",
                   company |-> IF Truthy(mentor.current_company)
                               THEN mentor.current_company ELSE "",
                   industry |-> IF Truthy(mentor.industry)
                                THEN mentor.industry ELSE "",
                   class_year |-> ToString(mentor.class_year)]]

\* lines 72-87: the item index_mentor upserts
IndexItem(mentor) ==
    [id |-> mentor.id,
     text |-> to_rag_document(mentor),
     metadata |-> [mentor_id |-> mentor.id,
                   huddle_id |-> mentor.huddle_id,
                   full_name |-> mentor.full_name,
                   title |-> IF Truthy(mentor.title) THEN mentor.title ELSE "",
                   company |-> IF Truthy(mentor.current_company)
                               THEN mentor.current_company ELSE "",
                   industry |-> IF Truthy(mentor.industry)
                                THEN mentor.industry ELSE "",
                   class_year |-> ToString(mentor.class_year)]]

\* what one call of index_mentor meets: the embedding and the upsert work,
\* the embedding function raises, or the vector store raises
IndexOutcomes == {"ok", "embed_error", "store_error"}

\* a slip: the item is stored although the embedding function raised
index_mentor_storing_failures(ef, v, mentor, outcome) ==
    IF ~ef THEN [v |-> v, success |-> FALSE, wrote |-> FALSE]
    ELSE IF outcome \in {"ok", "embed_error"}
    THEN [v |-> upsert(v, get_mentor_collection_name(mentor.huddle_id),
                       IndexItem(mentor)),
          success |-> outcome = "ok", wrote |-> TRUE]
    ELSE [v |-> v, success |-> FALSE, wrote |-> FALSE]

\* index_mentor: the vector store after the call and the value returned
index_mentor(ef, v, mentor, outcome) ==
    IF ~ef THEN [v |-> v, success |-> FALSE, wrote |-> FALSE]
    ELSE IF outcome = "ok"
    THEN [v |-> upsert(v, get_mentor_collection_name(mentor.huddle_id),
                       IndexItem(mentor)),
          success |-> TRUE, wrote |-> TRUE]
    ELSE [v |-> v, success |-> FALSE, wrote |-> FALSE]

\* the cap index_all_mentors_for_huddle passes to get_mentors_by_huddle
INDEX_LIMIT == 1000

\* a slip: a failed mentor is not counted
CountDroppingFailures(results, success) ==
    IF success THEN [results EXCEPT !.indexed = @ + 1]
    ELSE results

\* lines 116-119
Count(results, success) ==
    IF success THEN [results EXCEPT !.indexed = @ + 1]
    ELSE [results EXCEPT !.failed = @ + 1]

RECURSIVE FormatResultsFirstHit(_, _, _)
\* a slip: the distance and the document are read at the first position,
\* not at the position of the hit
FormatResultsFirstHit(p, hits, i) ==
    IF i > Len(hits) THEN <<>>
    ELSE LET mentor == get_mentor_by_id(p, hits[i].id)
             rest == FormatResultsFirstHit(p, hits, i + 1)
         IN  IF mentor # NoMentor
             THEN <<[mentor |-> mentor,
                     relevance_score |-> hits[1].distance,
                     document_text |-> hits[1].document]>> \o rest
             ELSE rest

RECURSIVE FormatResults(_, _, _)
\* lines 209-220: the hits from position i on, each re-fetched by id
FormatResults(p, hits, i) ==
    IF i > Len(hits) THEN <<>>
    ELSE LET mentor == get_mentor_by_id(p, hits[i].id)
             rest == FormatResults(p, hits, i + 1)
         IN  IF mentor # NoMentor
             THEN <<[mentor |-> mentor,
                     relevance_score |-> hits[i].distance,
                     document_text |-> hits[i].document]>> \o rest
             ELSE rest

(***************************************************************************)
(* The mentor endpoints (routers/mentors.py) running one at a time over a  *)
(* profiles table that changes underneath them.                            *)
(***************************************************************************)
\* store changes made by the administrative surface in one run
MaxChanges == 2
\* mentor operations started in one run
MaxOps == 2

SearchLimits == {1, 2, 5}

\* app.state.EMBEDDING_FUNCTION is set, or not
EmbeddingChoices == BOOLEAN

\* request.state of the requests: unbound, bound to huddle 7, bound to 8
RequestStates == {EmptyState, PublishState(HuddleX), PublishState(HuddleY)}

\* mentor ids a client asks for: the three rows and an id of no row
MentorIdChoices == {"1", "2", "3", "9"}

NoCounts == [indexed |-> 0, failed |-> 0, total |-> 0]

\* kind: none | search | index | remove | fetch
\* pc: idle -> (embedding | indexing ->) done
\* huddle     get_current_huddle(request) of the endpoint
\* huddle_id  the service call's huddle_id argument
\* limit      search limit
\* mentor_id  the mentor id a fetch or a removal names
\* eligible   history: the ids of the huddle's visible rows as the batch
\*            enumerated
\* mentors, i the batch's enumeration and the position of its loop
\* attempts   history: the value index_mentor returned for each mentor
\* results    the batch's counts
\* hits       what the vector store's query returned
\* out        the search results returned
\* mentor     the mentor get_mentor returned
\* status     HTTP status of the endpoint's answer, 0 while it runs
\* raised     an exception was caught inside the service
\* nnq, writes   vector-store queries and modifications made by the call
\* success    what remove_mentor returned
IdleOp ==
    [kind |-> "none", pc |-> "idle", huddle |-> NoHuddle, huddle_id |-> None,
     limit |-> 0, mentor_id |-> None, eligible |-> {}, mentors |-> <<>>, i |-> 0, attempts |-> <<>>,
     results |-> NoCounts, hits |-> <<>>, out |-> <<>>, mentor |-> NoMentor,
     status |-> 0, raised |-> FALSE, nnq |-> 0, writes |-> 0,
     success |-> FALSE]

\* get_current_huddle
get_current_huddle(state) == state.huddle

\* a slip: the endpoint does not look at the embedding function
endpoint_gate_no_embedding_check(huddle, ef) ==
    IF huddle = NoHuddle THEN 400
    ELSE 0

\* lines 83-97 and 194-207: 400 without a huddle, 503 without an embedding
\* function, 0 to go on
endpoint_gate(huddle, ef) ==
    IF huddle = NoHuddle THEN 400
    ELSE IF ~ef THEN 503
    ELSE 0

\* the ids of the rows of table p that are visible mentors of huddle_id
EligibleIds(p, huddle_id) ==
    {ToString(p[m].id) : m \in {k \in DOMAIN p :
                                  /\ ToString(p[k].huddle_id) = huddle_id
                                  /\ p[k].mentorship_status = "Willing to mentor"
                                  /\ ~p[k].deleted}}

\* history per huddle id: batches started, ids its batches found eligible,
\* ids index_mentor stored, ids on which index_mentor failed
NoHistory == [batches |-> 0, eligible |-> {}, ok |-> {}, failed |-> {}]

\* a slip: the owner of the mentor is not compared with the huddle
get_mentor_status_any_owner(huddle, mentor) ==
    IF mentor = NoMentor THEN 404
    ELSE 200

\* lines 163-176 of get_mentor: 404, 403 or the mentor
get_mentor_status(huddle, mentor) ==
    IF mentor = NoMentor THEN 404
    ELSE IF huddle # NoHuddle /\ mentor.huddle_id # huddle.id THEN 403
    ELSE 200

RagInit ==
    \E ef \in EmbeddingChoices :
        rag = [profiles |-> InitialProfiles,
               changes |-> 0,
               ops |-> 0,
               ef |-> ef,
               v |-> [c \in CollectionNames |-> NoCollection],
               op |-> IdleOp,
               hist |-> [h \in HuddleIds |-> NoHistory]]

\* no operation is running and the run may start another
Free == rag.op.pc \in {"idle", "done"} /\ rag.ops < MaxOps

\* the administrative surface deletes a mentor, withdraws its availability
\* or assigns it to the other organization
StoreChange ==
    /\ rag.changes < MaxChanges
    /\ \E m \in DOMAIN rag.profiles, kind \in {"delete", "retire", "move"} :
          LET row == rag.profiles[m]
              new == CASE kind = "delete" -> [row EXCEPT !.deleted = TRUE]
                       [] kind = "retire" ->
                            [row EXCEPT !.mentorship_status = "Not available"]
                       [] OTHER ->
                            [row EXCEPT !.huddle_id =
                                CHOOSE h \in OrgIds : h # row.huddle_id]
          IN  /\ new # row
              /\ rag' = [rag EXCEPT !.profiles[m] = new, !.changes = @ + 1]

\* POST /search, lines 72-104, and search_mentors up to the await of the
\* query embedding (lines 183-196)
SearchRequest ==
    /\ Free
    /\ \E state \in RequestStates, limit \in SearchLimits :
          LET huddle == get_current_huddle(state)
              gate == endpoint_gate(huddle, rag.ef)
              op == [IdleOp EXCEPT !.kind = "search", !.huddle = huddle,
                                   !.limit = limit]
          IN  rag' = [rag EXCEPT !.ops = @ + 1, !.op =
                IF gate # 0 THEN [op EXCEPT !.pc = "done", !.status = gate]
                ELSE IF ~rag.ef
                        \/ ~has_collection(rag.v,
                                get_mentor_collection_name(huddle.id))
                THEN [op EXCEPT !.pc = "done", !.huddle_id = huddle.id,
                                !.status = 200]
                ELSE [op EXCEPT !.pc = "embedding", !.huddle_id = huddle.id]]

\* what the rest of a search meets: the embedding call, the vector query or
\* the re-fetch of a hit may raise
SearchOutcomes == {"ok", "embed_error", "store_error", "fetch_error"}

\* a slip: the handler hands back the results gathered before the failure
OnSearchFailureKeepPartial(search_results) == search_results

\* except Exception: log and return [] (lines 222-224)
OnSearchFailure(search_results) == <<>>

\* search_mentors lines 196-224 and the endpoint's answer (lines 106-118)
SearchFinish ==
    /\ rag.op.pc = "embedding"
    /\ \E outcome \in SearchOutcomes :
          \/ /\ outcome = "embed_error"
             /\ rag' = [rag EXCEPT !.op.pc = "done", !.op.status = 200,
                                   !.op.raised = TRUE,
                                   !.op.out = OnSearchFailure(<<>>)]
          \/ /\ outcome = "store_error"
             /\ rag' = [rag EXCEPT !.op.pc = "done", !.op.status = 200,
                                   !.op.raised = TRUE, !.op.nnq = @ + 1,
                                   !.op.out = OnSearchFailure(<<>>)]
          \/ /\ outcome = "fetch_error"
             /\ \E hits \in SearchHits(rag.v,
                               get_mentor_collection_name(rag.op.huddle_id),
                               rag.op.limit) :
                \E k \in 1..Len(hits) :
                   rag' = [rag EXCEPT
                             !.op.pc = "done", !.op.status = 200,
                             !.op.raised = TRUE,
                             !.op.nnq = @ + 1, !.op.hits = hits,
                             !.op.out = OnSearchFailure(
                                 FormatResults(rag.profiles,
                                               SubSeq(hits, 1, k - 1), 1))]
          \/ /\ outcome = "ok"
             /\ \E hits \in SearchHits(rag.v,
                               get_mentor_collection_name(rag.op.huddle_id),
                               rag.op.limit) :
                   rag' = [rag EXCEPT
                             !.op.pc = "done", !.op.status = 200,
                             !.op.nnq = @ + 1, !.op.hits = hits,
                             !.op.out = FormatResults(rag.profiles, hits, 1)]

\* POST /index, lines 185-210, and index_all_mentors_for_huddle up to its
\* loop (lines 110-112)
IndexRequest ==
    /\ Free
    /\ \E state \in RequestStates :
          LET huddle == get_current_huddle(state)
              gate == endpoint_gate(huddle, rag.ef)
              op == [IdleOp EXCEPT !.kind = "index", !.huddle = huddle]
          IN  IF gate # 0
              THEN rag' = [rag EXCEPT !.ops = @ + 1,
                                      !.op = [op EXCEPT !.pc = "done",
                                                        !.status = gate]]
              ELSE LET mentors == get_mentors_by_huddle(rag.profiles, huddle.id,
                                                        0, INDEX_LIMIT)
                   IN  rag' = [rag EXCEPT
                            !.ops = @ + 1,
                            !.hist[huddle.id] =
                                [@ EXCEPT !.batches = @ + 1,
                                          !.eligible = @ \cup
                                             EligibleIds(rag.profiles, huddle.id)],
                            !.op = [op EXCEPT
                                      !.pc = "indexing",
                                      !.huddle_id = huddle.id,
                                      !.eligible =
                                          EligibleIds(rag.profiles, huddle.id),
                                      !.mentors = mentors,
                                      !.i = 1,
                                      !.results = [NoCounts EXCEPT
                                                     !.total = Len(mentors)]]]

\* one turn of the loop of lines 114-119: index_mentor on the next mentor
IndexStep ==
    /\ rag.op.pc = "indexing"
    /\ rag.op.i <= Len(rag.op.mentors)
    /\ \E outcome \in IndexOutcomes :
          LET mentor == rag.op.mentors[rag.op.i]
              r == index_mentor(rag.ef, rag.v, mentor, outcome)
          IN  rag' = [rag EXCEPT
                        !.v = r.v,
                        !.hist[mentor.huddle_id] =
                            IF r.success THEN [@ EXCEPT !.ok = @ \cup {mentor.id}]
                            ELSE [@ EXCEPT !.failed = @ \cup {mentor.id}],
                        !.op.i = @ + 1,
                        !.op.attempts = Append(@, r.success),
                        !.op.results = Count(@, r.success),
                        !.op.writes = @ + (IF r.wrote THEN 1 ELSE 0)]

\* lines 121-122 and the endpoint's answer (lines 212-218)
IndexReturn ==
    /\ rag.op.pc = "indexing"
    /\ rag.op.i > Len(rag.op.mentors)
    /\ rag' = [rag EXCEPT !.op.pc = "done", !.op.status = 200]

\* what the vector store does with a delete
RemoveOutcomes == {"ok", "store_error"}

\* remove_mentor; the store may fail, and deleting from a collection that was
\* never created raises
RemoveMentor ==
    /\ Free
    /\ \E mentor_id \in MentorIdChoices, huddle_id \in HuddleIds,
          outcome \in RemoveOutcomes :
          LET name == get_mentor_collection_name(huddle_id)
              op == [IdleOp EXCEPT !.kind = "remove", !.pc = "done",
                                   !.mentor_id = mentor_id,
                                   !.huddle_id = huddle_id]
          IN  IF outcome = "ok" /\ has_collection(rag.v, name)
              THEN rag' = [rag EXCEPT
                             !.ops = @ + 1,
                             !.v = delete(rag.v, name, {mentor_id}),
                             !.op = [op EXCEPT !.success = TRUE, !.writes = 1]]
              ELSE rag' = [rag EXCEPT !.ops = @ + 1,
                                      !.op = [op EXCEPT !.raised = TRUE]]

\* GET /{mentor_id}, lines 151-176
GetMentor ==
    /\ Free
    /\ \E state \in RequestStates, mentor_id \in MentorIdChoices :
          LET huddle == get_current_huddle(state)
              mentor == get_mentor_by_id(rag.profiles, mentor_id)
              status == get_mentor_status(huddle, mentor)
              op == [IdleOp EXCEPT !.kind = "fetch", !.pc = "done",
                                   !.huddle = huddle, !.mentor_id = mentor_id,
                                   !.status = status]
          IN  rag' = [rag EXCEPT !.ops = @ + 1, !.op =
                IF status = 200 THEN [op EXCEPT !.mentor = mentor] ELSE op]

InitRag ==
    /\ RagInit
    /\ dir = DirOff
    /\ readAt = ReadOff
    /\ ex = ExOff
    /\ flt = FltOff
    /\ now = 0
    /\ ticks = 0
    /\ db = [s \in DbSlugs |-> NoRow]
    /\ cache = [s \in SlugKeys |-> NoEntry]
    /\ loop = 0
    /\ req = [r \in Reqs |-> IdleReq]
    /\ conf = [enable |-> TRUE, default_slug |-> None]
    /\ lastFill = [s \in SlugKeys |-> NoFill]

NextRag ==
    \/ StoreChange /\ UNCHANGED <<tenantVars, ex, flt, dir>>
    \/ SearchRequest /\ UNCHANGED <<tenantVars, ex, flt, dir>>
    \/ SearchFinish /\ UNCHANGED <<tenantVars, ex, flt, dir>>
    \/ IndexRequest /\ UNCHANGED <<tenantVars, ex, flt, dir>>
    \/ IndexStep /\ UNCHANGED <<tenantVars, ex, flt, dir>>
    \/ IndexReturn /\ UNCHANGED <<tenantVars, ex, flt, dir>>
    \/ RemoveMentor /\ UNCHANGED <<tenantVars, ex, flt, dir>>
    \/ GetMentor /\ UNCHANGED <<tenantVars, ex, flt, dir>>

SpecRag == InitRag /\ [][NextRag]_vars

(***************************************************************************)
(* Claims about mentor indexing, search and fetch                          *)
(***************************************************************************)
\* the ids of the rows of table p that a mentor query sees
VisibleIds(p) ==
    {ToString(p[m].id) : m \in {k \in DOMAIN p :
                                  /\ p[k].mentorship_status = "Willing to mentor"
                                  /\ ~p[k].deleted}}

\* the ids in a list of search results
ResultIds(out) == {out[j].mentor.id : j \in 1..Len(out)}

\* the ids stored in the collection of huddle_id
Members(huddle_id) ==
    {it.id : it \in rag.v["mentors-" \o huddle_id].items}

BatchDone ==
    rag.op.kind = "index" /\ rag.op.pc = "done" /\ rag.op.status = 200

SearchDone ==
    rag.op.kind = "search" /\ rag.op.pc = "done" /\ rag.op.status = 200

\* C13: a finished batch for an organization has enumerated exactly the
\* organization's eligible mentors (no more than 1000), has called indexOne
\* on every one of them whatever the earlier calls returned, and returns
\* total = number enumerated, indexed = number of successful calls,
\* failed = number of failed calls, so that indexed + failed = total.
C13_BatchCounts ==
    BatchDone =>
       LET op == rag.op
           n == Len(op.mentors)
       IN  /\ {op.mentors[k].id : k \in 1..n} = op.eligible
           /\ n = Cardinality(op.eligible)
           /\ n <= 1000
           /\ Len(op.attempts) = n
           /\ op.results.total = n
           /\ op.results.indexed = Cardinality({k \in 1..n : op.attempts[k]})
           /\ op.results.failed = Cardinality({k \in 1..n : ~op.attempts[k]})
           /\ op.results.indexed + op.results.failed = op.results.total

\* a batch over two mentors whose first indexOne failed and whose second
\* succeeded
C13_Witness ==
    /\ BatchDone
    /\ rag.op.attempts = <<FALSE, TRUE>>
    /\ rag.op.results = [indexed |-> 1, failed |-> 1, total |-> 2]

\* C14: after the one batch run on an organization whose collection was
\* empty, a search on the organization returns distinct mentor ids, no more
\* than were indexed successfully, every one of a mentor whose indexOne
\* succeeded and none of a mentor whose indexOne failed.
C14_SearchAfterBatch ==
    (SearchDone /\ rag.op.huddle_id # None
        /\ rag.hist[rag.op.huddle_id].batches = 1)
    => LET out == rag.op.out
           h == rag.hist[rag.op.huddle_id]
       IN  /\ \A i, j \in 1..Len(out) :
                 out[i].mentor.id = out[j].mentor.id => i = j
           /\ Len(out) <= Cardinality(h.ok)
           /\ ResultIds(out) \subseteq h.ok
           /\ ResultIds(out) \cap h.failed = {}

\* a search that returns a mentor after a batch in which another mentor's
\* indexOne failed
C14_Witness ==
    /\ SearchDone
    /\ rag.op.huddle_id # None
    /\ rag.hist[rag.op.huddle_id].batches = 1
    /\ rag.hist[rag.op.huddle_id].failed # {}
    /\ Len(rag.op.out) >= 1

\* C15: a search on an organization whose collection was never created
\* returns an empty list with no error and makes no nearest-neighbour query.
C15_NoCollectionNoQuery ==
    (/\ rag.op.kind = "search" /\ rag.op.pc = "done"
     /\ rag.op.huddle # NoHuddle /\ rag.ef
     /\ ~rag.v["mentors-" \o rag.op.huddle.id].exists)
    => /\ rag.op.status = 200
       /\ rag.op.out = <<>>
       /\ ~rag.op.raised
       /\ rag.op.nnq = 0

\* a search answered while the organization has no collection
C15_Witness ==
    /\ SearchDone
    /\ rag.ef
    /\ rag.op.huddle # NoHuddle
    /\ ~rag.v["mentors-" \o rag.op.huddle.id].exists
    /\ rag.op.out = <<>>

\* the step in which a search that met no failure returns
SearchReturns ==
    rag.op.pc = "embedding" /\ rag'.op.pc = "done" /\ ~rag'.op.raised

\* C16: a search returns at most `limit` results: the hits of the vector
\* store whose mentor id resolves to a visible mentor record, in the order
\* of the hits, each with the mentor record, the distance and the document
\* text of its own hit; a hit whose id does not resolve is dropped.
C16_SearchResultsFollowHits ==
    [][SearchReturns =>
         LET p == rag.profiles
             hits == rag'.op.hits
             out == rag'.op.out
             Resolves(h) == h.id \in VisibleIds(p)
             kept == SelectSeq(hits, Resolves)
         IN  /\ Len(out) <= rag.op.limit
             /\ Len(out) = Len(kept)
             /\ \A j \in 1..Len(kept) :
                   /\ out[j].mentor.id = kept[j].id
                   /\ \E m \in DOMAIN p :
                         out[j].mentor = mentor_from_orm_with_str_id(p[m])
                   /\ out[j].relevance_score = kept[j].distance
                   /\ out[j].document_text = kept[j].document]_vars

\* a search whose first hit no longer resolves and whose second hit is
\* returned with its own distance
C16_Witness ==
    /\ SearchDone
    /\ ~rag.op.raised
    /\ Len(rag.op.hits) = 2
    /\ Len(rag.op.out) = 1
    /\ rag.op.out[1].mentor.id = rag.op.hits[2].id
    /\ rag.op.out[1].relevance_score = rag.op.hits[2].distance

\* C17: in every reachable state the ids stored in an organization's
\* collection are ids of currently visible mentor records of that
\* organization.
C17_MembersAreVisibleNow ==
    \A h \in HuddleIds : Members(h) \subseteq EligibleIds(rag.profiles, h)

\* C17, as the code has it: the ids stored in an organization's collection
\* are ids of records that were visible mentors of that organization when
\* an indexing batch enumerated them, and every stored item names that
\* organization; a record that stops being visible stays in the collection
\* until it is removed explicitly.
C17_MembersWereEnumerated ==
    \A h \in HuddleIds :
       /\ Members(h) \subseteq rag.hist[h].eligible
       /\ \A it \in rag.v["mentors-" \o h].items :
             it.metadata.huddle_id = h /\ it.metadata.mentor_id = it.id

\* a collection that holds a record which is no longer a visible mentor of
\* its organization
C17_Witness ==
    \E h \in HuddleIds :
       /\ Members(h) # {}
       /\ ~(Members(h) \subseteq EligibleIds(rag.profiles, h))

\* C18: every mentor a search for an organization returns is, as the
\* search returns, a visible mentor record (availability sentinel set, not
\* deleted) owned by that organization, whatever index, remove and
\* relational-store changes came before.
C18_SearchReturnsOwnVisibleMentors ==
    [][(rag.op.pc = "embedding" /\ rag'.op.pc = "done") =>
         LET p == rag'.profiles
             out == rag'.op.out
         IN  \A j \in 1..Len(out) :
                \E m \in DOMAIN p :
                   /\ ToString(p[m].id) = out[j].mentor.id
                   /\ p[m].mentorship_status = "Willing to mentor"
                   /\ ~p[m].deleted
                   /\ ToString(p[m].huddle_id) = rag.op.huddle_id]_vars

\* a search for one organization that returns a mentor now owned by the
\* other: the mentor was indexed, then assigned to the other organization
SearchReturnsMovedMentor ==
    /\ SearchDone
    /\ \E j \in 1..Len(rag.op.out) :
          rag.op.out[j].mentor.huddle_id # rag.op.huddle_id

\* what the search does guarantee: every mentor returned is visible as the
\* search returns and was a visible mentor of the organization when a batch
\* enumerated it
SearchReturnsVisibleIndexedMentors ==
    [][(rag.op.pc = "embedding" /\ rag'.op.pc = "done") =>
         LET out == rag'.op.out
         IN  /\ ResultIds(out) \subseteq VisibleIds(rag'.profiles)
             /\ ResultIds(out) \subseteq rag.hist[rag.op.huddle_id].eligible]_vars

\* C19: with no embedding function available, an index or a search
\* request of a bound caller is answered 503 (service unavailable), and the
\* vector store is neither queried nor modified.
C19_NoEmbeddingMeansUnavailable ==
    (/\ ~rag.ef
     /\ rag.op.kind \in {"index", "search"}
     /\ rag.op.huddle # NoHuddle)
    => /\ rag.op.pc = "done"
       /\ rag.op.status = 503
       /\ rag.op.nnq = 0
       /\ rag.op.writes = 0
       /\ rag.op.out = <<>>
       /\ \A c \in DOMAIN rag.v : rag.v[c] = [exists |-> FALSE, items |-> {}]

\* an index request refused for want of an embedding function
C19_Witness ==
    /\ ~rag.ef
    /\ rag.op.kind = "index"
    /\ rag.op.huddle # NoHuddle
    /\ rag.op.status = 503

\* C20: a request bound to organization A that fetches by id a visible
\* mentor owned by another organization is answered 403, and a mentor
\* returned to a request bound to A is owned by A.
C20_FetchStaysInsideOrganization ==
    [][(rag'.op.kind = "fetch" /\ rag'.ops = rag.ops + 1
          /\ rag'.op.huddle # NoHuddle) =>
         LET p == rag.profiles
             a == rag'.op.huddle.id
             rows == {m \in DOMAIN p :
                         /\ ToString(p[m].id) = rag'.op.mentor_id
                         /\ p[m].mentorship_status = "Willing to mentor"
                         /\ ~p[m].deleted}
         IN  /\ \A m \in rows :
                   ToString(p[m].huddle_id) # a
                     => rag'.op.status = 403 /\ rag'.op.mentor = <<>>
             /\ rag'.op.mentor # <<>>
                   => /\ rag'.op.status = 200
                      /\ rag'.op.mentor.huddle_id = a
                      /\ \E m \in rows :
                            /\ ToString(p[m].huddle_id) = a
                            /\ rag'.op.mentor.id = ToString(p[m].id)]_vars

\* a fetch by a request bound to one organization of a mentor of the other,
\* refused
C20_Witness ==
    /\ rag.op.kind = "fetch"
    /\ rag.op.huddle # NoHuddle
    /\ rag.op.status = 403
    /\ \E m \in DOMAIN rag.profiles :
          /\ ToString(rag.profiles[m].id) = rag.op.mentor_id
          /\ ToString(rag.profiles[m].huddle_id) # rag.op.huddle.id

(***************************************************************************)
(* The Directory lookup by slug on its own                                 *)
(***************************************************************************)
\* slugs of the rows a huddles table may hold (slug is unique; slugs are
\* stored lowercase)
DirSlugs == {"x", "y", "hoosiers-football"}

\* the slugs asked for: stored slugs, their case variants, slugs of no row
DirQueries ==
    {"x", "X", "y", "Y", "hoosiers-football", "Hoosiers-Football",
     "HOOSIERS-FOOTBALL", "z", "hoosiers"}

\* a row with the slug s, soft-deleted or not
DirRows(s) ==
    {[id |-> 10 + Len(s), name |-> "Huddle " \o s, slug |-> s,
      deleted |-> del] : del \in BOOLEAN}

\* contents of the huddles table
DirTables ==
    {d \in [DirSlugs -> UNION {DirRows(s) : s \in DirSlugs} \cup {NoRow}] :
        \A s \in DirSlugs : d[s] = NoRow \/ d[s].slug = s}

DirInit ==
    dir \in {[pc |-> "ask", table |-> d, slug |-> q, result |-> NoHuddle,
              raised |-> FALSE] : d \in DirTables, q \in DirQueries}

\* Huddles.get_huddle_by_slug(slug)
DirLookup ==
    /\ dir.pc = "ask"
    /\ dir' = [dir EXCEPT !.pc = "done",
                          !.result = get_huddle_by_slug(dir.table, dir.slug)]

InitDir ==
    /\ DirInit
    /\ ex = ExOff
    /\ flt = FltOff
    /\ rag = RagOff
    /\ now = 0
    /\ ticks = 0
    /\ db = [s \in DbSlugs |-> NoRow]
    /\ cache = [s \in SlugKeys |-> NoEntry]
    /\ loop = 0
    /\ req = [r \in Reqs |-> IdleReq]
    /\ conf = [enable |-> TRUE, default_slug |-> None]
    /\ readAt = ReadOff
    /\ lastFill = [s \in SlugKeys |-> NoFill]

NextDir == DirLookup /\ UNCHANGED <<tenantVars, ex, flt, rag>>

SpecDir == InitDir /\ [][NextDir]_vars

\* C21: the lookup by slug returns, for a query slug equal up to letter
\* case to the slug of a stored organization, that organization when its
\* delete marker is unset and absent when it is set; a slug of no row gives
\* absent; absence is a value returned, not an error raised.
C21_LookupBySlug ==
    dir.pc = "done" =>
       LET matches == {s \in DirSlugs : /\ dir.table[s] # <<>>
                                        /\ Lower(dir.table[s].slug) = Lower(dir.slug)}
       IN  /\ ~dir.raised
           /\ \A s \in matches :
                 IF dir.table[s].deleted THEN dir.result = <<>>
                 ELSE /\ dir.result # <<>>
                      /\ dir.result.slug = dir.table[s].slug
                      /\ dir.result.name = dir.table[s].name
                      /\ dir.result.id = ToString(dir.table[s].id)
           /\ matches = {} => dir.result = <<>>

\* a query in capitals that found the organization stored in lowercase
C21_Witness ==
    /\ dir.pc = "done"
    /\ dir.slug = "HOOSIERS-FOOTBALL"
    /\ dir.result # <<>>
    /\ dir.result.slug = "hoosiers-football"

(***************************************************************************)
(* index_all_mentors: the batch over every huddle (POST /index/all)        *)
(***************************************************************************)
\* HuddleTable.get_huddle_by_id on a huddles table keyed by id
get_huddle_by_id(d, huddle_id) ==
    LET rows == {h \in DOMAIN d : ToString(d[h].id) = huddle_id}
    IN  IF rows = {} THEN NoHuddle
        ELSE LET row == d[CHOOSE h \in rows : TRUE]
             IN  IF row.deleted THEN NoHuddle ELSE from_orm_with_str_id(row)

\* the ids MentorTable.get_all_huddle_ids_with_mentors returns: the distinct
\* huddle ids of the visible rows
get_all_huddle_ids_with_mentors(p) ==
    {ToString(p[m].huddle_id) : m \in {k \in DOMAIN p : Visible(p[k])}}

RECURSIVE Orderings(_)
\* the query has no ORDER BY: the ids come in any order
Orderings(ids) ==
    IF ids = {} THEN {<<>>}
    ELSE UNION {{<<h>> \o o : o \in Orderings(ids \ {h})} : h \in ids}

\* huddles tables: huddle 7 may be soft-deleted, huddle 8 may carry the
\* same display name as huddle 7 (name has no unique constraint)
HuddleTables ==
    {[h \in OrgIds |->
         IF h = 7
         THEN [id |-> 7, name |-> "Indiana Football", slug |-> "x",
               deleted |-> del]
         ELSE [id |-> 8, name |-> name8, slug |-> "y", deleted |-> FALSE]] :
        del \in BOOLEAN, name8 \in {"Indiana Football", "Purdue Crew"}}

\* an empty dict
NoResults == <<>>

\* results[huddle_name] = result
SetResult(results, huddle_name, result) ==
    (huddle_name :> result) @@ results

\* all.pc: idle -> running -> done
\* ids, k     the huddle ids enumerated and the position of the loop
\* results    the dict being built
\* history: orgs  the huddle ids with a visible mentor as the ids were
\*          enumerated; runs  the huddle id and the counts of every
\*          per-huddle batch that was run
IdleAll ==
    [pc |-> "idle", ids |-> <<>>, k |-> 0, results |-> NoResults,
     status |-> 0, orgs |-> {}, runs |-> <<>>]

RagAllInit ==
    \E ef \in EmbeddingChoices, d \in HuddleTables :
        rag = [profiles |-> InitialProfiles,
               changes |-> 0,
               ops |-> 0,
               ef |-> ef,
               v |-> [c \in CollectionNames |-> NoCollection],
               op |-> IdleOp,
               hist |-> [h \in HuddleIds |-> NoHistory],
               huddles |-> d,
               all |-> IdleAll]

\* POST /index/all, lines 222-239, and index_all_mentors line 131
AllRequest ==
    /\ rag.all.pc = "idle"
    /\ IF ~rag.ef
       THEN rag' = [rag EXCEPT !.all.pc = "done", !.all.status = 503]
       ELSE \E ids \in Orderings(get_all_huddle_ids_with_mentors(rag.profiles)) :
               rag' = [rag EXCEPT
                         !.all.pc = "running", !.all.ids = ids, !.all.k = 1,
                         !.all.orgs = {h \in HuddleIds :
                                          EligibleIds(rag.profiles, h) # {}}]

\* index_all_mentors lines 134-138 and index_all_mentors_for_huddle lines
\* 110-112: the next huddle's batch starts
AllNextHuddle ==
    /\ rag.all.pc = "running"
    /\ rag.op.pc = "idle"
    /\ rag.all.k <= Len(rag.all.ids)
    /\ LET huddle_id == rag.all.ids[rag.all.k]
           mentors == get_mentors_by_huddle(rag.profiles, huddle_id,
                                            0, INDEX_LIMIT)
       IN  rag' = [rag EXCEPT
                     !.hist[huddle_id] =
                         [@ EXCEPT !.batches = @ + 1,
                                   !.eligible = @ \cup
                                       EligibleIds(rag.profiles, huddle_id)],
                     !.op = [IdleOp EXCEPT
                               !.kind = "index", !.pc = "indexing",
                               !.huddle_id = huddle_id,
                               !.eligible = EligibleIds(rag.profiles, huddle_id),
                               !.mentors = mentors, !.i = 1,
                               !.results = [NoCounts EXCEPT
                                              !.total = Len(mentors)]]]

\* index_all_mentors lines 135-139: the batch's counts go into the dict
\* under the huddle's name, or under its id when the huddle is not found
AllRecord ==
    /\ rag.all.pc = "running"
    /\ rag.op.pc = "indexing"
    /\ rag.op.i > Len(rag.op.mentors)
    /\ LET huddle_id == rag.op.huddle_id
           huddle == get_huddle_by_id(rag.huddles, huddle_id)
           huddle_name == IF huddle # NoHuddle THEN huddle.name ELSE huddle_id
       IN  rag' = [rag EXCEPT
                     !.op = IdleOp,
                     !.all.k = @ + 1,
                     !.all.runs = Append(@, [id |-> huddle_id,
                                             counts |-> rag.op.results]),
                     !.all.results = SetResult(@, huddle_name, rag.op.results)]

\* index_all_mentors line 141 and the endpoint's answer (line 241)
AllReturn ==
    /\ rag.all.pc = "running"
    /\ rag.op.pc = "idle"
    /\ rag.all.k > Len(rag.all.ids)
    /\ rag' = [rag EXCEPT !.all.pc = "done", !.all.status = 200]

InitRagAll ==
    /\ RagAllInit
    /\ dir = DirOff
    /\ readAt = ReadOff
    /\ ex = ExOff
    /\ flt = FltOff
    /\ now = 0
    /\ ticks = 0
    /\ db = [s \in DbSlugs |-> NoRow]
    /\ cache = [s \in SlugKeys |-> NoEntry]
    /\ loop = 0
    /\ req = [r \in Reqs |-> IdleReq]
    /\ conf = [enable |-> TRUE, default_slug |-> None]
    /\ lastFill = [s \in SlugKeys |-> NoFill]

NextRagAll ==
    \/ StoreChange /\ UNCHANGED <<tenantVars, ex, flt, dir>>
    \/ AllRequest /\ UNCHANGED <<tenantVars, ex, flt, dir>>
    \/ AllNextHuddle /\ UNCHANGED <<tenantVars, ex, flt, dir>>
    \/ IndexStep /\ UNCHANGED <<tenantVars, ex, flt, dir>>
    \/ AllRecord /\ UNCHANGED <<tenantVars, ex, flt, dir>>
    \/ AllReturn /\ UNCHANGED <<tenantVars, ex, flt, dir>>

SpecRagAll == InitRagAll /\ [][NextRagAll]_vars

\* the display name of the organization with id huddle_id
DisplayName(huddle_id) ==
    LET h == CHOOSE o \in DOMAIN rag.huddles :
                ToString(rag.huddles[o].id) = huddle_id
    IN  rag.huddles[h].name

AllDone == rag.all.pc = "done" /\ rag.all.status = 200

\* the counts of the batch that ran for huddle_id
RunCounts(huddle_id) ==
    LET k == CHOOSE j \in 1..Len(rag.all.runs) : rag.all.runs[j].id = huddle_id
    IN  rag.all.runs[k].counts

\* C22: when the batch over all organizations returns, the per-organization
\* indexing has run exactly once for each organization id that had an
\* eligible mentor, and the returned map holds, under each such
\* organization's display name, the counts of its run.
C22_EveryOrganizationReported ==
    AllDone =>
       /\ {rag.all.runs[j].id : j \in 1..Len(rag.all.runs)} = rag.all.orgs
       /\ Len(rag.all.runs) = Cardinality(rag.all.orgs)
       /\ \A h \in rag.all.orgs :
             /\ DisplayName(h) \in DOMAIN rag.all.results
             /\ rag.all.results[DisplayName(h)] = RunCounts(h)

\* two organizations with one display name: one entry is returned for two
\* runs
IndexAllLosesResultOnEqualNames ==
    /\ AllDone
    /\ Len(rag.all.runs) = 2
    /\ DisplayName("7") = DisplayName("8")
    /\ Cardinality(DOMAIN rag.all.results) = 1

\* a soft-deleted organization whose mentors are still eligible is reported
\* under its id
IndexAllKeysDeletedHuddleById ==
    /\ AllDone
    /\ "7" \in rag.all.orgs
    /\ "7" \in DOMAIN rag.all.results

\* where the report is complete: the organizations are not deleted and
\* their display names differ
IndexAllCompleteOnDistinctNames ==
    (/\ AllDone
     /\ \A h \in DOMAIN rag.huddles : ~rag.huddles[h].deleted
     /\ \A g, h \in DOMAIN rag.huddles :
           rag.huddles[g].name = rag.huddles[h].name => g = h)
    => C22_EveryOrganizationReported

(***************************************************************************)
(* Further claims about the tenant middleware                              *)
(***************************************************************************)
\* the Host names a local development host (the port is not looked at)
LocalHost(host) == BeforeFirst(host, ":") \in {"localhost", "127.0.0.1"}

\* C23: for a request whose Host is not a local development host the
\* override header has no say in the organization bound: the slug dispatch
\* resolves is the one it would resolve without the header.
C23_HeaderIgnoredOffLocalhost ==
    \A r \in Reqs :
        (InDispatch(r) /\ conf.enable /\ ~LocalHost(req[r].host))
        => req[r].slug = ChooseSlug(req[r].host, None, conf.default_slug)

\* a request to www.alumnihuddle.com is bound to the organization its
\* override header names
OverrideHeaderBindsOffLocalhost ==
    \E r \in Reqs :
        /\ req[r].pc = "call_next"
        /\ req[r].host = "www.alumnihuddle.com"
        /\ req[r].hdr = "x"
        /\ req[r].state.huddle # NoHuddle
        /\ req[r].state.huddle.slug = "x"

\* the header is passed over whenever the host itself yields a slug
HeaderIgnoredWhenHostYieldsSlug ==
    \A r \in Reqs :
        (InDispatch(r) /\ conf.enable /\ extract_subdomain(req[r].host) # None)
        => req[r].slug = ChooseSlug(req[r].host, None, conf.default_slug)

\* the event loop runs a dispatch it has started up to its await of
\* call_next: the steps in between are synchronous code
DispatchStep(r) ==
    \/ GchCheck(r)
    \/ DbReturn(r)
    \/ DbFail(r)
    \/ Publish(r)
    \/ CallNext(r)

\* the middleware up to the hand-over to the downstream handler
NextLive ==
    \/ Tick /\ UNCHANGED <<ex, flt, rag, dir, readAt>>
    \/ AdminWrite /\ UNCHANGED <<ex, flt, rag, dir, readAt>>
    \/ \E r \in Reqs : Dispatch(r) /\ UNCHANGED <<ex, flt, rag, dir, readAt>>
    \/ \E r \in Reqs : GchCheck(r) /\ UNCHANGED <<ex, flt, rag, dir, readAt>>
    \/ \E r \in Reqs : DbReturn(r) /\ UNCHANGED <<ex, flt, rag, dir, readAt>>
    \/ \E r \in Reqs : DbFail(r) /\ UNCHANGED <<ex, flt, rag, dir, readAt>>
    \/ \E r \in Reqs : Publish(r) /\ UNCHANGED <<ex, flt, rag, dir, readAt>>
    \/ \E r \in Reqs : CallNext(r) /\ UNCHANGED <<ex, flt, rag, dir, readAt>>

SpecLive ==
    /\ Init
    /\ [][NextLive]_vars
    /\ \A r \in Reqs : WF_vars(DispatchStep(r) /\ UNCHANGED <<ex, flt, rag, dir, readAt>>)

\* dispatch has a slug to look up
SlugObtained(r) == conf.enable /\ req[r].slug \notin {None, ""}

\* get_cached_huddle has been through the cache for the request
LookedUp(r) == req[r].prior # NoEntry \/ req[r].calls >= 1

\* the final states of the request's context
TenantSet(r) ==
    SlugObtained(r) /\ LookedUp(r) /\ req[r].huddle # NoHuddle /\ ~Raised(r)

TenantUnknown(r) ==
    SlugObtained(r) /\ LookedUp(r) /\ (req[r].huddle = NoHuddle \/ Raised(r))

NoSlug(r) == ~SlugObtained(r) /\ ~LookedUp(r)

\* the request is handed to the downstream handler in this step
HandedOn(r) == req'[r].downstream # req[r].downstream

\* C24 (order and final states): a request is handed to the downstream
\* handler at most once, and when it is, its context is in one of the final
\* states tenant-set, tenant-unknown or no-slug; request.state holds an
\* organization exactly in tenant-set and is empty otherwise.
C24_HandedOnInFinalState ==
    [][\A r \in Reqs :
          HandedOn(r) =>
             /\ req[r].downstream = 0
             /\ req'[r].downstream = 1
             /\ TenantSet(r) \/ TenantUnknown(r) \/ NoSlug(r)
             /\ TenantSet(r) => /\ req[r].state.huddle = req[r].huddle
                                /\ req[r].state.tenant = req[r].huddle
             /\ ~TenantSet(r) => req[r].state = EmptyState
             /\ req'[r].state = req[r].state]_vars

\* C24 (progress): every request that has entered dispatch reaches the
\* downstream handler.
C24_ReachesDownstream ==
    \A r \in Reqs : InDispatch(r) ~> (req[r].downstream = 1)

\* C24: every request entering the tenant middleware goes through slug
\* extraction and the cache lookup and reaches the downstream handler exactly
\* once, only in a final state, with an organization published only in
\* tenant-set.
C24_RequestLifecycle ==
    C24_HandedOnInFinalState /\ C24_ReachesDownstream

\* one request is downstream bound to an organization, another with a
\* failed lookup and nothing bound
C24_Witness ==
    \E r \in Reqs : \E o \in Reqs \ {r} :
        /\ req[r].pc = "handler"
        /\ req[r].downstream = 1
        /\ req[r].state.huddle # NoHuddle
        /\ req[o].pc = "handler"
        /\ req[o].downstream = 1
        /\ req[o].exc # None
        /\ req[o].state = EmptyState

\* request r is inside get_cached_huddle waiting for the Directory, having
\* found the entry of its slug missing or expired
MissedOrExpired(r) ==
    /\ req[r].pc = "db"
    /\ \/ cache[req[r].slug] = NoEntry
       \/ req[r].t - cache[req[r].slug].cached_at >= CACHE_TTL_SECONDS

\* the step is a cache hit of r
HitStep(r) == req[r].pc = "resolve" /\ req'[r].pc = "publish"

\* the step is a failed Directory call of r
FailStep(r) == req[r].pc = "db" /\ req'[r].dbfail

\* C25: _huddle_cache changes only in a step in which a resolution that
\* found its slug's entry missing or expired gets the Directory's answer,
\* and then only that slug's entry is replaced, by (answer, time the
\* resolution read); a hit and a failed Directory call leave the whole map
\* as it is, and no step removes an entry.
C25_CacheWrittenOnlyOnAnsweredMiss ==
    [][/\ cache' # cache =>
             \E r \in Reqs :
                /\ MissedOrExpired(r)
                /\ ~req'[r].dbfail
                /\ req'[r].calls = req[r].calls + 1
                /\ cache' = [cache EXCEPT ![req[r].slug] =
                                [huddle |-> req'[r].huddle,
                                 cached_at |-> req[r].t]]
                /\ req'[r].huddle = get_huddle_by_slug(db, req[r].slug)
       /\ \A r \in Reqs : (HitStep(r) \/ FailStep(r)) => cache' = cache
       /\ \A s \in SlugKeys : cache[s] # NoEntry => cache'[s] # NoEntry]_vars

\* an expired entry has been replaced by the Directory's answer, stamped
\* with the time the resolution read
C25_Witness ==
    \E r \in Reqs :
        /\ req[r].pc = "publish"
        /\ ~req[r].dbfail
        /\ req[r].calls = 1
        /\ req[r].prior # NoEntry
        /\ req[r].t - req[r].prior.cached_at >= CACHE_TTL_SECONDS
        /\ cache[req[r].slug] = [huddle |-> req[r].huddle, cached_at |-> req[r].t]
        /\ cache[req[r].slug] # req[r].prior

\* an expired entry has survived a failed Directory call with its old
\* timestamp
StaleEntryKeptOnFailure ==
    \E r \in Reqs :
        /\ req[r].pc = "publish"
        /\ req[r].dbfail
        /\ req[r].prior # NoEntry
        /\ cache[req[r].slug] = req[r].prior
        /\ req[r].t - cache[req[r].slug].cached_at >= CACHE_TTL_SECONDS

\* a cache entry is a pair of a whole organization of that slug, or of
\* absence, and a time
WellFormedEntry(s, e) ==
    /\ DOMAIN e = {"huddle", "cached_at"}
    /\ e.cached_at \in 0..now
    /\ \/ e.huddle = NoHuddle
       \/ /\ DOMAIN e.huddle = {"id", "name", "slug"}
          /\ e.huddle.slug = Lower(s)

\* the answer the Directory gave to request r's resolution, or, when it
\* made no call or the call failed, to the resolution that filled the entry
\* it was served from
AnswerServed(r) ==
    IF req[r].calls = 1 /\ ~req[r].dbfail
    THEN lastFill[req[r].slug]
    ELSE req[r].priorFill

\* C26: resolutions of one slug that each missed may each call the
\* Directory and the last write wins: the slug's entry is a well-formed pair
\* holding the answer the Directory gave to the last resolution that got
\* one, and every resolution that returned gave back an answer the Directory
\* gave for that slug.
C26_LastWriteWins ==
    /\ \A s \in SlugKeys :
          cache[s] # NoEntry =>
             /\ WellFormedEntry(s, cache[s])
             /\ lastFill[s] # NoFill
             /\ cache[s] = [huddle |-> lastFill[s].value,
                            cached_at |-> lastFill[s].at]
    /\ \A r \in Reqs :
          (Resolved(r) /\ ~Raised(r)) =>
             /\ AnswerServed(r) # NoFill
             /\ req[r].huddle = AnswerServed(r).value

\* two requests in flight whose resolutions of one slug both missed and got
\* different answers; the entry holds the later one
C26_Witness ==
    \E r \in Reqs : \E o \in Reqs \ {r} :
        /\ req[o].pc = "handler"
        /\ req[o].state.huddle # NoHuddle
        /\ Resolved(r)
        /\ req[r].calls = 1
        /\ ~req[r].dbfail
        /\ req[r].prior # NoEntry
        /\ req[r].prior.huddle = req[o].state.huddle
        /\ req[r].huddle = NoHuddle
        /\ cache[req[r].slug] = [huddle |-> NoHuddle, cached_at |-> req[r].t]

\* request o is in flight in the downstream handler
Downstream(o) == req[o].pc = "handler"

\* C27: while one request waits on its Directory call inside the tenant
\* middleware, another request in flight can still take its next step.
C27_LookupDoesNotBlockOthers ==
    \A r \in Reqs : \A o \in Reqs \ {r} :
        (req[r].pc = "db" /\ Downstream(o))
        => ENABLED (HandlerPlain(o) /\ UNCHANGED <<ex, flt, rag, dir, readAt>>)

\* a request is inside the Directory call while another is in flight
\* downstream
LookupWhileOtherInFlight ==
    \E r \in Reqs : \E o \in Reqs \ {r} :
        /\ req[r].pc = "db"
        /\ loop = r
        /\ Downstream(o)

\* as long as a request is inside its Directory call no other request
\* moves: the call is synchronous and the event loop is not released
LookupHoldsTheLoop ==
    [][\A r \in Reqs :
          (req[r].pc = "db" /\ req'[r].pc = "db")
          => \A o \in Reqs \ {r} : req'[o] = req[o]]_vars

(***************************************************************************)
(* Further claims about the model-listing filter                           *)
(***************************************************************************)
\* the response's Content-Type passes the filter's JSON test
JsonType(resp) == Contains(resp.ctype, "application/json")

\* C28: when the request path is neither /api/models nor /api/v1/models, or
\* the response's content type is not JSON, the filter hands back the
\* downstream response itself: same status, headers and body, and the body
\* iterator not read.
C28_OtherResponsesUntouched ==
    (/\ flt.pc = "done"
     /\ \/ flt.path \notin {"/api/models", "/api/v1/models"}
        \/ ~JsonType(flt.up))
    => /\ flt.out = flt.up
       /\ ~flt.consumed
       /\ flt.body = EmptyBytes

\* a JSON response on another path for a bound request went through as it
\* was
C28_Witness ==
    /\ flt.pc = "done"
    /\ flt.path = "/api/chat/completions"
    /\ Bound(flt.state)
    /\ JsonType(flt.up)
    /\ flt.up.cenc = "gzip"
    /\ ListingOf(flt.up).ok
    /\ Len(ListingOf(flt.up).items) = 2
    /\ flt.out = flt.up
    /\ ~flt.consumed

\* a listing path, a bound request, a response that is not JSON: handed
\* back as it was
NonJsonListingUntouched ==
    /\ flt.pc = "done"
    /\ flt.path = "/api/models"
    /\ Bound(flt.state)
    /\ ~JsonType(flt.up)
    /\ flt.out = flt.up
    /\ ~flt.consumed

(***************************************************************************)
(* Further claims about the mentor retrieval service                       *)
(***************************************************************************)
\* C29: a search inside which the embedding call, the vector-store query or
\* the re-fetch of a mentor record failed returns the empty list, and the
\* caller gets an answer, not an exception.
C29_SearchFailureGivesEmptyList ==
    (rag.op.kind = "search" /\ rag.op.pc = "done" /\ rag.op.raised)
    => /\ rag.op.status = 200
       /\ rag.op.out = <<>>

\* the vector store gave two hits, the first resolved to a visible mentor
\* and the re-fetch of a later one failed: nothing is returned
C29_Witness ==
    /\ SearchDone
    /\ rag.op.raised
    /\ rag.op.nnq = 1
    /\ Len(rag.op.hits) = 2
    /\ rag.op.hits[1].id \in VisibleIds(rag.profiles)
    /\ rag.op.out = <<>>

\* remove_mentor returns in this step
RemoveReturns == rag'.ops = rag.ops + 1 /\ rag'.op.kind = "remove"

\* C30: when remove(mentorId, orgId) returns success, orgId's collection has
\* no entry for mentorId, its other entries are the ones it had and every
\* other collection is as it was; when the store operation fails, remove
\* returns failure and nothing is raised to the caller.
C30_RemoveDeletesOneEntry ==
    [][RemoveReturns =>
         LET name == get_mentor_collection_name(rag'.op.huddle_id)
             mentor_id == rag'.op.mentor_id
         IN  /\ rag'.op.pc = "done"
             /\ rag'.op.success =>
                   /\ \A it \in rag'.v[name].items : it.id # mentor_id
                   /\ rag'.v[name].items =
                         {it \in rag.v[name].items : it.id # mentor_id}
                   /\ rag'.v[name].exists = rag.v[name].exists
                   /\ \A c \in CollectionNames \ {name} : rag'.v[c] = rag.v[c]
             /\ rag'.op.raised => ~rag'.op.success
             /\ ~rag'.op.success => rag'.op.raised /\ rag'.v = rag.v]_vars

\* a mentor that a batch had indexed was removed and the organization's
\* other mentor is still in the collection
C30_Witness ==
    /\ rag.op.kind = "remove"
    /\ rag.op.pc = "done"
    /\ rag.op.success
    /\ rag.op.mentor_id \in rag.hist[rag.op.huddle_id].ok
    /\ rag.op.mentor_id \notin Members(rag.op.huddle_id)
    /\ Members(rag.op.huddle_id) # {}

\* the store failed on a collection that holds the mentor: remove reports
\* failure and the entry stays
RemoveFailureReported ==
    /\ rag.op.kind = "remove"
    /\ rag.op.pc = "done"
    /\ rag.op.raised
    /\ ~rag.op.success
    /\ rag.op.mentor_id \in Members(rag.op.huddle_id)

\* the ids stored in collection c of vector store v
IdsIn(v, c) == {it.id : it \in v[c].items}

\* the step is a successful remove_mentor of an id from collection c
RemovedFrom(c) ==
    /\ RemoveReturns
    /\ rag'.op.success
    /\ c = get_mentor_collection_name(rag'.op.huddle_id)
    /\ IdsIn(rag.v, c) \ IdsIn(rag'.v, c) \subseteq {rag'.op.mentor_id}

\* C31: no step of an indexing operation takes an entry out of a
\* collection: an id stored before the step is stored after it, whether or
\* not its mentor is still eligible, and a collection that exists stays;
\* an id leaves a collection only in a step of remove.
C31_IndexingNeverRetracts ==
    [][\A c \in CollectionNames :
          /\ rag.v[c].exists => rag'.v[c].exists
          /\ IdsIn(rag.v, c) \subseteq IdsIn(rag'.v, c) \/ RemovedFrom(c)]_vars

\* a second batch has run for an organization after one of its indexed
\* mentors became ineligible; the mentor's entry is still there
C31_Witness ==
    /\ BatchDone
    /\ rag.hist[rag.op.huddle_id].batches = 2
    /\ rag.op.writes >= 1
    /\ \E id \in Members(rag.op.huddle_id) :
          /\ id \notin rag.op.eligible
          /\ id \notin VisibleIds(rag.profiles)

\* index_mentor returns success in this step of a batch
IndexedOne ==
    /\ rag.op.pc = "indexing"
    /\ rag'.op.i = rag.op.i + 1
    /\ rag'.op.attempts[Len(rag'.op.attempts)]

\* C32 (one entry per id): no collection holds two entries with one id.
C32_OneEntryPerMentor ==
    \A c \in CollectionNames : \A a, b \in rag.v[c].items :
        a.id = b.id => a = b

\* C32 (upsert): a successful indexOne of a mentor puts the mentor's entry,
\* keyed by the mentor's id, into the collection of the mentor's own
\* organization in place of the entry that had that id, and leaves every
\* other entry of every collection as it was; indexing the same record once
\* more changes nothing.
C32_IndexOneUpserts ==
    [][IndexedOne =>
         LET mentor == rag.op.mentors[rag.op.i]
             name == "mentors-" \o mentor.huddle_id
             mine == {it \in rag'.v[name].items : it.id = mentor.id}
         IN  /\ \A it \in mine :
                   /\ it.metadata.mentor_id = mentor.id
                   /\ it.metadata.huddle_id = mentor.huddle_id
                   /\ it.text = to_rag_document(mentor)
             /\ Cardinality(mine) = 1
             /\ rag'.v[name].items \ mine =
                   {it \in rag.v[name].items : it.id # mentor.id}
             /\ \A c \in CollectionNames \ {name} : rag'.v[c] = rag.v[c]
             /\ index_mentor(rag.ef, rag'.v, mentor, "ok").v = rag'.v]_vars

\* C32: indexOne is an upsert keyed by mentor id into the collection of the
\* mentor's own organization: it is idempotent on an unchanged record, no
\* collection ever holds two entries for one mentor id, and a successful
\* call changes no entry but that mentor's.
C32_IndexOneIsUpsert ==
    []C32_OneEntryPerMentor /\ C32_IndexOneUpserts

\* both mentors of an organization were indexed by one batch and again,
\* unchanged, by the next; the collection holds one entry for each
C32_Witness ==
    /\ BatchDone
    /\ rag.changes = 0
    /\ rag.hist[rag.op.huddle_id].batches = 2
    /\ rag.hist[rag.op.huddle_id].failed = {}
    /\ rag.op.writes = 2
    /\ Cardinality(rag.v["mentors-" \o rag.op.huddle_id].items) = 2
    /\ Cardinality(Members(rag.op.huddle_id)) = 2

(***************************************************************************)
(* The huddle context endpoint (routers/tenants.py) behind the tenant      *)
(* middleware                                                              *)
(***************************************************************************)
\* HuddleResponse(id, name, slug, ...) built from a huddle
HuddleResponse(huddle) ==
    [id |-> huddle.id, name |-> huddle.name, slug |-> huddle.slug]

\* lines 127-135 of get_huddle_context: the slug it looks up itself, from
\* the host, else from the override header
ContextSubdomain(host, hdr) ==
    LET s == extract_subdomain(host)
    IN  IF s = None \/ s = "" THEN hdr ELSE s

\* get_huddle_context when the Directory answers: the huddle it reports and
\* the source it names
get_huddle_context(enable, state, host, hdr, d) ==
    IF ~enable THEN [huddle |-> NoHuddle, source |-> "disabled"]
    ELSE IF state.tenant # NoHuddle
    THEN [huddle |-> HuddleResponse(state.tenant), source |-> "middleware"]
    ELSE LET s == extract_subdomain(host)
             subdomain == ContextSubdomain(host, hdr)
             found == subdomain \notin {None, ""}
             source == IF s \notin {None, ""} THEN "subdomain"
                       ELSE IF found THEN "header" ELSE "none"
             huddle_model == IF found THEN get_huddle_by_slug(d, subdomain)
                             ELSE NoHuddle
         IN  IF huddle_model # NoHuddle
             THEN [huddle |-> HuddleResponse(huddle_model), source |-> source]
             ELSE [huddle |-> NoHuddle, source |-> source]

\* dispatch, line 136 / 171, for a handler that reads the request's headers:
\* the request goes downstream with its headers
CallNextWithHeaders(r) ==
    /\ loop = r
    /\ req[r].pc = "call_next"
    /\ req' = [req EXCEPT ![r] =
                 [IdleReq EXCEPT !.pc = "handler",
                                 !.host = req[r].host,
                                 !.hdr = req[r].hdr,
                                 !.huddle = req[r].huddle,
                                 !.exc = req[r].exc,
                                 !.state = req[r].state,
                                 !.downstream = req[r].downstream + 1]]
    /\ loop' = 0
    /\ UNCHANGED <<now, ticks, db, cache, conf, lastFill>>

\* GET /context answers
HandlerContext(r) ==
    /\ loop = 0
    /\ req[r].pc = "handler"
    /\ LET c == get_huddle_context(conf.enable, req[r].state,
                                   req[r].host, req[r].hdr, db)
       IN  req' = [req EXCEPT ![r].guard = c.source,
                              ![r].returned = c.huddle,
                              ![r].exc = None,
                              ![r].host = "",
                              ![r].hdr = None,
                              ![r].pc = "done"]
    /\ UNCHANGED <<now, ticks, db, cache, loop, conf, lastFill>>

\* GET /context: the endpoint's own Directory lookup raises
HandlerContextFail(r) ==
    /\ loop = 0
    /\ req[r].pc = "handler"
    /\ conf.enable
    /\ req[r].state.tenant = NoHuddle
    /\ ContextSubdomain(req[r].host, req[r].hdr) \notin {None, ""}
    /\ \E kind \in DirectoryErrors :
          req' = [req EXCEPT ![r].guard = "500",
                             ![r].exc = kind,
                             ![r].host = "",
                             ![r].hdr = None,
                             ![r].pc = "done"]
    /\ UNCHANGED <<now, ticks, db, cache, loop, conf, lastFill>>

NextCtx ==
    \/ Tick /\ UNCHANGED <<ex, flt, rag, dir, readAt>>
    \/ AdminWrite /\ UNCHANGED <<ex, flt, rag, dir, readAt>>
    \/ \E r \in Reqs : Dispatch(r) /\ UNCHANGED <<ex, flt, rag, dir, readAt>>
    \/ \E r \in Reqs : GchCheck(r) /\ UNCHANGED <<ex, flt, rag, dir, readAt>>
    \/ \E r \in Reqs : DbReturn(r) /\ UNCHANGED <<ex, flt, rag, dir, readAt>>
    \/ \E r \in Reqs : DbFail(r) /\ UNCHANGED <<ex, flt, rag, dir, readAt>>
    \/ \E r \in Reqs : Publish(r) /\ UNCHANGED <<ex, flt, rag, dir, readAt>>
    \/ \E r \in Reqs : CallNextWithHeaders(r) /\ UNCHANGED <<ex, flt, rag, dir, readAt>>
    \/ \E r \in Reqs : HandlerContext(r) /\ UNCHANGED <<ex, flt, rag, dir, readAt>>
    \/ \E r \in Reqs : HandlerContextFail(r) /\ UNCHANGED <<ex, flt, rag, dir, readAt>>

SpecCtx == Init /\ [][NextCtx]_vars

\* GET /context has answered request r
ContextAnswered(r) ==
    req[r].pc = "done" /\ req[r].guard # "500"

\* C33: the organization the huddle context endpoint reports for a request
\* is the organization-or-absent value the tenant middleware published for
\* that request.
C33_ContextReportsPublished ==
    \A r \in Reqs :
        ContextAnswered(r) =>
           IF req[r].state.tenant = NoHuddle
           THEN req[r].returned = NoHuddle
           ELSE req[r].returned = HuddleResponse(req[r].state.tenant)

\* the middleware published nothing, and the endpoint reports an
\* organization it looked up itself
ContextReportsUnpublishedOrganization ==
    \E r \in Reqs :
        /\ ContextAnswered(r)
        /\ conf.enable
        /\ req[r].state = EmptyState
        /\ req[r].returned # NoHuddle
        /\ req[r].guard \in {"subdomain", "header"}

\* whenever the middleware published an organization, the endpoint reports
\* that one
ContextReportsPublishedOrganization ==
    \A r \in Reqs :
        (ContextAnswered(r) /\ req[r].state.tenant # NoHuddle)
        => /\ req[r].returned = HuddleResponse(req[r].state.tenant)
           /\ req[r].guard = "middleware"

(***************************************************************************)
(* The mentor router (routers/mentors.py): its route table and the two GET *)
(* operations behind it                                                    *)
(***************************************************************************)
\* the routes in the order the decorators register them (lines 71, 121,
\* 150, 184, 221, 244)
Routes ==
    <<[method |-> "POST", pattern |-> "/search", operation |-> "search_mentors"],
      [method |-> "GET", pattern |-> "/", operation |-> "list_mentors"],
      [method |-> "GET", pattern |-> "/{mentor_id}", operation |-> "get_mentor"],
      [method |-> "POST", pattern |-> "/index", operation |-> "index_mentors"],
      [method |-> "POST", pattern |-> "/index/all",
       operation |-> "index_all_mentors"],
      [method |-> "GET", pattern |-> "/stats", operation |-> "get_mentor_stats"]>>

\* a path parameter matches one non-empty segment without a slash
Segment(path) ==
    /\ Len(path) >= 2
    /\ CharAt(path, 1) = "/"
    /\ \A i \in 2..Len(path) : CharAt(path, i) # "/"

\* the path matches the route's pattern
PathMatches(pattern, path) ==
    IF pattern = "/{mentor_id}" THEN Segment(path) ELSE path = pattern

\* the router takes the first route whose path and method both match; a
\* path that matches only under another method is answered 405, no match 404
MatchRoute(method, path) ==
    LET full == {i \in 1..Len(Routes) :
                    /\ PathMatches(Routes[i].pattern, path)
                    /\ Routes[i].method = method}
        partial == {i \in 1..Len(Routes) : PathMatches(Routes[i].pattern, path)}
        Min(S) == CHOOSE i \in S : \A j \in S : i <= j
    IN  IF full # {} THEN Routes[Min(full)].operation
        ELSE IF partial # {} THEN "405"
        ELSE "404"

\* get_collection_stats when the store answers
get_collection_stats(v, huddle_id) ==
    LET name == get_mentor_collection_name(huddle_id)
    IN  IF ~has_collection(v, name) THEN [exists |-> FALSE, count |-> 0]
        ELSE [exists |-> TRUE, count |-> Cardinality(IdsIn(v, name))]

\* get_mentor_count_by_huddle
get_mentor_count_by_huddle(p, huddle_id) ==
    Cardinality(EligibleIds(p, huddle_id))

NoStats == <<>>

\* get_mentor_stats, lines 254-273: 400 without a huddle, else the counts
get_mentor_stats(huddle, p, v) ==
    IF huddle = NoHuddle THEN [status |-> 400, stats |-> NoStats]
    ELSE LET collection_stats == get_collection_stats(v, huddle.id)
         IN  [status |-> 200,
              stats |-> [huddle_id |-> huddle.id,
                         huddle_name |-> huddle.name,
                         total_mentors |->
                             get_mentor_count_by_huddle(p, huddle.id),
                         indexed_mentors |-> collection_stats.count,
                         collection_exists |-> collection_stats.exists]]

RouteMethods == {"GET", "POST"}
RoutePaths ==
    {"/", "/stats", "/1", "/3", "/9", "/search", "/index", "/index/all",
     "/stats/7"}

\* the vector stores a request finds: nothing indexed, or the two mentors of
\* huddle 7 indexed
RouteStores ==
    LET empty == [c \in CollectionNames |-> NoCollection]
        Row(m) == mentor_from_orm_with_str_id(InitialProfiles[m])
        seven == {m \in DOMAIN InitialProfiles :
                     InitialProfiles[m].huddle_id = 7}
        a == CHOOSE m \in seven : TRUE
        b == CHOOSE m \in seven : m # a
    IN  {empty,
         upsert(upsert(empty, "mentors-7", IndexItem(Row(a))),
                "mentors-7", IndexItem(Row(b)))}

\* route.pc: idle -> matched -> done
\* operation  the endpoint function the router picked, or 404 / 405
\* mentor_id  the path parameter of get_mentor
\* status, mentor, stats  the answer
IdleRoute ==
    [pc |-> "idle", method |-> "", path |-> "", state |-> EmptyState,
     operation |-> "none", mentor_id |-> None, status |-> 0,
     mentor |-> NoMentor, stats |-> NoStats]

RouteInit ==
    \E v \in RouteStores :
        rag = [profiles |-> InitialProfiles,
               changes |-> 0,
               ops |-> 0,
               ef |-> TRUE,
               v |-> v,
               op |-> IdleOp,
               hist |-> [h \in HuddleIds |-> NoHistory],
               route |-> IdleRoute]

\* a request arrives at the mentor router and is matched to a route
RouteRequest ==
    /\ rag.route.pc = "idle"
    /\ \E method \in RouteMethods, path \in RoutePaths, state \in RequestStates :
          LET operation == MatchRoute(method, path)
          IN  rag' = [rag EXCEPT !.route =
                        [IdleRoute EXCEPT
                           !.pc = "matched", !.method = method, !.path = path,
                           !.state = state, !.operation = operation,
                           !.mentor_id = IF operation = "get_mentor"
                                         THEN Tail(path) ELSE None]]

\* the endpoint function the router picked runs: get_mentor (lines
\* 151-176), get_mentor_stats (lines 245-273), or the router's own 404 / 405;
\* the other operations are modelled with the service
RouteHandle ==
    /\ rag.route.pc = "matched"
    /\ LET huddle == get_current_huddle(rag.route.state)
           operation == rag.route.operation
       IN  IF operation = "get_mentor"
           THEN LET mentor == get_mentor_by_id(rag.profiles, rag.route.mentor_id)
                    status == get_mentor_status(huddle, mentor)
                IN  rag' = [rag EXCEPT
                              !.route.pc = "done", !.route.status = status,
                              !.route.mentor = IF status = 200 THEN mentor
                                               ELSE NoMentor]
           ELSE IF operation = "get_mentor_stats"
           THEN LET r == get_mentor_stats(huddle, rag.profiles, rag.v)
                IN  rag' = [rag EXCEPT
                              !.route.pc = "done", !.route.status = r.status,
                              !.route.stats = r.stats]
           ELSE rag' = [rag EXCEPT
                          !.route.pc = "done",
                          !.route.status = CASE operation = "404" -> 404
                                             [] operation = "405" -> 405
                                             [] OTHER -> 0]

InitRoute ==
    /\ RouteInit
    /\ dir = DirOff
    /\ readAt = ReadOff
    /\ ex = ExOff
    /\ flt = FltOff
    /\ now = 0
    /\ ticks = 0
    /\ db = [s \in DbSlugs |-> NoRow]
    /\ cache = [s \in SlugKeys |-> NoEntry]
    /\ loop = 0
    /\ req = [r \in Reqs |-> IdleReq]
    /\ conf = [enable |-> TRUE, default_slug |-> None]
    /\ lastFill = [s \in SlugKeys |-> NoFill]

NextRoute ==
    \/ StoreChange /\ UNCHANGED <<tenantVars, ex, flt, dir>>
    \/ RouteRequest /\ UNCHANGED <<tenantVars, ex, flt, dir>>
    \/ RouteHandle /\ UNCHANGED <<tenantVars, ex, flt, dir>>

SpecRoute == InitRoute /\ [][NextRoute]_vars

\* the request was GET /stats from a request bound to an organization
StatsRequested ==
    /\ rag.route.pc = "done"
    /\ rag.route.method = "GET"
    /\ rag.route.path = "/stats"
    /\ get_current_huddle(rag.route.state) # NoHuddle

\* C34: GET /stats from a request bound to an organization is handled by
\* get_mentor_stats and answered with that organization's mentor count and
\* collection statistics; the single-mentor route does not take it.
C34_StatsReachesStatistics ==
    StatsRequested =>
       /\ rag.route.operation = "get_mentor_stats"
       /\ rag.route.status = 200
       /\ rag.route.stats =
             get_mentor_stats(get_current_huddle(rag.route.state),
                              rag.profiles, rag.v).stats

\* GET /stats went to get_mentor with mentor_id "stats" and was answered
\* "Mentor not found"
StatsCapturedBySingleMentorRoute ==
    /\ StatsRequested
    /\ rag.route.operation = "get_mentor"
    /\ rag.route.mentor_id = "stats"
    /\ rag.route.status = 404
    /\ rag.route.stats = NoStats

\* no GET request is ever handled by get_mentor_stats
StatsRouteNeverTaken ==
    rag.route.method = "GET" => rag.route.operation # "get_mentor_stats"

(***************************************************************************)
(* The cache with the time of each Directory answer kept as history        *)
(***************************************************************************)
\* no answer yet
NeverRead == 0 - 1

InitStale ==
    /\ TenantInit
    /\ ex = ExOff
    /\ flt = FltOff
    /\ rag = RagOff
    /\ dir = DirOff
    /\ readAt = [s \in SlugKeys |-> NeverRead]

\* get_cached_huddle, lines 45-47, with the time of the answer written down
DbReturnTimed(r) ==
    /\ DbReturn(r)
    /\ readAt' = [readAt EXCEPT ![req[r].slug] = now]

NextStale ==
    \/ Tick /\ UNCHANGED <<ex, flt, rag, dir, readAt>>
    \/ AdminWrite /\ UNCHANGED <<ex, flt, rag, dir, readAt>>
    \/ \E r \in Reqs : Dispatch(r) /\ UNCHANGED <<ex, flt, rag, dir, readAt>>
    \/ \E r \in Reqs : GchCheck(r) /\ UNCHANGED <<ex, flt, rag, dir, readAt>>
    \/ \E r \in Reqs : DbReturnTimed(r) /\ UNCHANGED <<ex, flt, rag, dir>>
    \/ \E r \in Reqs : DbFail(r) /\ UNCHANGED <<ex, flt, rag, dir, readAt>>
    \/ \E r \in Reqs : Publish(r) /\ UNCHANGED <<ex, flt, rag, dir, readAt>>
    \/ \E r \in Reqs : CallNext(r) /\ UNCHANGED <<ex, flt, rag, dir, readAt>>

SpecStale == InitStale /\ [][NextStale]_vars

\* the Directory answers request r in this step
Answered(r) == req[r].pc = "db" /\ req'[r].pc = "publish" /\ ~req'[r].dbfail

\* the history is true to the Directory: a fill records the answer the
\* Directory gives in the step and the time of the step
FillsRecordTheDirectory ==
    [][\A r \in Reqs :
          Answered(r) =>
             LET s == req[r].slug
             IN  /\ lastFill'[s].value = get_huddle_by_slug(db, s)
                 /\ cache'[s].huddle = lastFill'[s].value
                 /\ readAt'[s] = now]_vars

\* C35 (timestamps): the time stored in an entry is not later than the time
\* at which the Directory gave the entry's value.
C35_StampNotAfterRead ==
    \A s \in SlugKeys :
        cache[s] # NoEntry =>
           /\ readAt[s] # NeverRead
           /\ cache[s].huddle = lastFill[s].value
           /\ cache[s].cached_at <= readAt[s]

\* C35 (staleness): a resolution of slug s that starts at time t and meets
\* no Directory failure returns the answer the Directory gave for s at a
\* time later than t - TTL.
C35_ReturnedAnswerIsRecent ==
    \A r \in Reqs :
        (Resolved(r) /\ ~req[r].dbfail /\ ~Raised(r)) =>
           /\ req[r].huddle = lastFill[req[r].slug].value
           /\ readAt[req[r].slug] > req[r].t - CACHE_TTL_SECONDS

\* C35: with the Directory reachable, what a resolution returns is the
\* Directory's answer of less than the TTL before the resolution, and an
\* entry is never stamped later than its value was read.
C35_BoundedStaleness ==
    /\ FillsRecordTheDirectory
    /\ [](C35_StampNotAfterRead /\ C35_ReturnedAnswerIsRecent)

\* a hit on an entry whose value the Directory gave after the time the
\* entry is stamped with, returned although the Directory has changed since
C35_Witness ==
    \E r \in Reqs :
        /\ Resolved(r)
        /\ req[r].calls = 0
        /\ req[r].prior # NoEntry
        /\ readAt[req[r].slug] > req[r].prior.cached_at
        /\ req[r].huddle = req[r].prior.huddle
        /\ get_huddle_by_slug(db, req[r].slug) # req[r].huddle

\* request.state is ready for the handler: dispatch is at its await of
\* call_next, or the request is downstream
AtHandOver(r) == req[r].pc \in {"call_next", "handler"}

\* C36: when the tenant middleware hands a request on, request.state either
\* holds one organization under both tenant and huddle with tenant_id and
\* huddle_id equal to its id, or holds none in all four; never some of them.
C36_AliasesConsistent ==
    \A r \in Reqs :
        AtHandOver(r) =>
           LET st == req[r].state
           IN  \/ st = EmptyState
               \/ /\ st.tenant # NoHuddle
                  /\ st.huddle = st.tenant
                  /\ st.tenant_id = st.tenant.id
                  /\ st.huddle_id = st.tenant.id
                  /\ st.tenant_id # None

\* one request downstream with all four set, another with none
C36_Witness ==
    \E r \in Reqs : \E o \in Reqs \ {r} :
        /\ req[r].pc = "handler"
        /\ req[r].state.huddle # NoHuddle
        /\ req[r].state.huddle_id = req[r].state.tenant.id
        /\ req[o].pc = "handler"
        /\ req[o].state = EmptyState

(***************************************************************************)
(* Further claims about slug extraction                                    *)
(***************************************************************************)
\* C37: whenever extract_subdomain returns a slug, the slug is a non-empty
\* lowercase label outside the reserved set; the empty string is never
\* returned, also for hosts with an empty label before the base domain.
C37_SlugIsProperLabel ==
    (ex.pc = "done" /\ ex.result # None) =>
        /\ ex.result # ""
        /\ ex.result = Lower(ex.result)
        /\ ex.result \notin RESERVED_SUBDOMAINS
        /\ \A i \in 1..Len(ex.result) : CharAt(ex.result, i) # "."

\* a host with a leading dot: the first part is empty, is not reserved, and
\* is what the loop returns
EmptySlugReturned ==
    /\ ex.pc = "done"
    /\ ex.host = ".x.alumnihuddle.com"
    /\ ex.result = ""

\* C38: extract_subdomain returns a slug only for a host of the form
\* <labels>.<base domain>; a host that ends with the base domain's characters
\* without a dot before them yields no slug.
C38_SlugOnlyForSubdomains ==
    (ex.pc = "done" /\ ex.result # None) =>
        LET h == BeforeFirst(ex.host, ":")
        IN  /\ EndsWith(h, "." \o BASE_DOMAIN)
            /\ Len(h) > Len(BASE_DOMAIN) + 1

\* another registered domain that ends with the base domain's characters
SlugFromForeignDomain ==
    /\ ex.pc = "done"
    /\ ex.host = "xalumnihuddle.com"
    /\ ex.result = "x"

(***************************************************************************)
(* Further claims about the filter's emitted headers                       *)
(***************************************************************************)
\* the body of a response is in the coding its Content-Encoding announces,
\* and unencoded when the header is absent
DescribesItsBody(resp) ==
    IF resp.cenc = None THEN resp.body.coding = "identity"
    ELSE resp.body.coding = resp.cenc

\* C39: every response the filter emits after it has read the upstream body
\* describes its body correctly, whether the upstream body was uncompressed,
\* gzip-compressed or compressed with another encoding, on the filtered and
\* on the fallback path.
C39_EmittedEncodingMatchesBody ==
    (flt.pc = "done" /\ flt.consumed) => DescribesItsBody(flt.out)

\* a brotli listing: nothing is decompressed, parsing raises, and the
\* fallback sends the compressed bytes without the header that says so
FallbackSendsBrotliUnlabelled ==
    /\ flt.pc = "done"
    /\ flt.consumed
    /\ flt.up.cenc = "br"
    /\ flt.out.cenc = None
    /\ flt.out.body = flt.up.body
    /\ flt.out.body.coding = "br"

\* for upstream bodies that are uncompressed, or gzip streams announced as
\* gzip, the emitted response describes its body
EmittedEncodingMatchesForPlainAndGzip ==
    (/\ flt.pc = "done"
     /\ flt.consumed
     /\ flt.up.cenc \in {None, "gzip"}
     /\ DescribesItsBody(flt.up)) => DescribesItsBody(flt.out)

(***************************************************************************)
(* Further claims about the single-mentor fetch                            *)
(***************************************************************************)
\* C40: GET /{mentor_id} returns a mentor record only to a request bound to
\* the organization that owns the mentor; a request with no organization
\* context never receives a mentor record.
C40_FetchOnlyForOwningOrganization ==
    (rag.op.kind = "fetch" /\ rag.op.pc = "done" /\ rag.op.mentor # NoMentor) =>
        /\ rag.op.huddle # NoHuddle
        /\ rag.op.mentor.huddle_id = rag.op.huddle.id

\* a request without huddle context is answered 200 with a mentor of an
\* organization
FetchWithoutContextReturnsMentor ==
    /\ rag.op.kind = "fetch"
    /\ rag.op.pc = "done"
    /\ rag.op.huddle = NoHuddle
    /\ rag.op.status = 200
    /\ rag.op.mentor # NoMentor
    /\ rag.op.mentor.huddle_id \in HuddleIds

\* with huddle context, a returned mentor is owned by the request's huddle
FetchWithContextReturnsOwnMentor ==
    (/\ rag.op.kind = "fetch"
     /\ rag.op.pc = "done"
     /\ rag.op.huddle # NoHuddle
     /\ rag.op.mentor # NoMentor) => rag.op.mentor.huddle_id = rag.op.huddle.id

====
